---- MODULE Spec2Model ----
(***************************************************************************)
(* RSSDI (momoxrss_python): the feed-polling scheduler and the ingestion   *)
(* pipeline.  The configuration store (MongoDB collection "fluxes"), the   *)
(* APScheduler job store, the running check coroutines, the dedup table    *)
(* sent_items (SQLite) and the Discord sink are the state; the request     *)
(* handlers, the timer fires and the atomic segments of a check cycle      *)
(* (the code between two suspending awaits) are the actions.               *)
(***************************************************************************)
EXTENDS Integers, Sequences, FiniteSets, Bags, TLC

(***************************************************************************)
(* Bounds of the model.                                                    *)
(***************************************************************************)
MaxFlux == 2        \* ObjectIds insert_one can hand out
MaxCycles == 2      \* check coroutines alive at the same time
MaxPosts == 2       \* posts of one key the sink log counts before the model stops posting it
MaxEntries == 3     \* entries of one fetched feed document
MaxPatterns == 2    \* patterns of one regexInclude list (SpecRegex)

(***************************************************************************)
(* Values.                                                                 *)
(***************************************************************************)
None == "None"        \* a missing str field
NoDate == -1          \* a missing date or counter field

Min(a, b) == IF a <= b THEN a ELSE b

Range(s) == {s[i] : i \in 1..Len(s)}

(***************************************************************************)
(* Strings.  A raw feed string is [pad, core]: core is the text without    *)
(* surrounding whitespace, as a sequence of tokens, and pad says whether   *)
(* whitespace surrounds it.  A text line is a sequence of words.           *)
(***************************************************************************)
Raw(pad, core) == [pad |-> pad, core |-> core]

EmptyStr == Raw(FALSE, <<>>)

\* Python truthiness of a str: any character, whitespace included.
Truthy(s) == s.pad \/ s.core # <<>>

\* str.strip()
strip(s) == s.core

\* str.lower() on one word of the vocabulary.
lower(w) ==
    CASE w = "PROMO" -> "promo"
      [] w = "Le" -> "le"
      [] w = "The" -> "the"
      [] OTHER -> w

(***************************************************************************)
(* rss_service.py: the pure helpers of RSSService.  A text is the pair of  *)
(* lines <<title, summary>> that f"{title}\n{summary}" joins; keywords and *)
(* literal regex patterns are single words of the vocabulary.              *)
(***************************************************************************)
\* w in text.lower(), for a word w
WordIn(w, text) ==
    \E l \in 1..Len(text) : \E p \in 1..Len(text[l]) : lower(text[l][p]) = w

\* " w " in text.lower(): the word with a space on both sides, so neither
\* the first nor the last word of a line.
SpacedWordIn(w, text) ==
    \E l \in 1..Len(text) : \E p \in 2..(Len(text[l]) - 1) : lower(text[l][p]) = w

extract_item_link(entry) ==
    IF Truthy(entry.link) THEN entry.link
    ELSE IF Truthy(entry.id) THEN entry.id
    ELSE EmptyStr

\* published and updated hold int(time.mktime(...)) of the parsed field, or
\* NoDate where the entry has none.
extract_item_date(entry) ==
    IF entry.published # NoDate THEN entry.published
    ELSE IF entry.updated # NoDate THEN entry.updated
    ELSE NoDate

\* date or 0
get_date(entry) ==
    IF extract_item_date(entry) = NoDate THEN 0 ELSE extract_item_date(entry)

\* Where sorted(..., reverse=True) puts e in a list already sorted: after
\* every element whose key is >= its own (the sort is stable).
RECURSIVE InsertDesc(_, _)
InsertDesc(e, s) ==
    IF s = <<>> THEN <<e>>
    ELSE IF get_date(Head(s)) >= get_date(e) THEN <<Head(s)>> \o InsertDesc(e, Tail(s))
    ELSE <<e>> \o s

sort_entries_by_date_unsorted(entries) == entries

RECURSIVE sort_entries_by_date(_)
sort_entries_by_date(entries) ==
    IF entries = <<>> THEN <<>>
    ELSE InsertDesc(entries[Len(entries)],
                    sort_entries_by_date(SubSeq(entries, 1, Len(entries) - 1)))

filter_by_language(text, language) ==
    IF language = None \/ language = "" THEN TRUE
    ELSE IF language = "fr" THEN \E m \in {"le", "la", "les", "de", "des", "et", "a_grave", "pour", "sur"} :
             SpacedWordIn(m, text)
    ELSE IF language = "en" THEN \E m \in {"the", "and", "of", "for", "on", "with", "from"} :
             SpacedWordIn(m, text)
    ELSE TRUE

match_keywords(text, keywords) ==
    IF keywords = <<>> THEN TRUE
    ELSE \E k \in 1..Len(keywords) : WordIn(lower(keywords[k]), text)

\* re.search(pattern, text, flags=re.IGNORECASE) for a literal pattern
re_search(pattern, text) == WordIn(lower(pattern.word), text)

\* The for loop of match_regex from pattern i on; compiling an invalid
\* pattern raises re.error, which the except clause turns into True.
RECURSIVE match_regex_from(_, _, _)
match_regex_from(text, patterns, i) ==
    IF i > Len(patterns) THEN FALSE
    ELSE IF patterns[i].kind = "bad" THEN TRUE
    ELSE IF re_search(patterns[i], text) THEN TRUE
    ELSE match_regex_from(text, patterns, i + 1)

match_regex_fail_closed(text, patterns) ==
    patterns = <<>>
        \/ \E k \in 1..Len(patterns) :
               patterns[k].kind # "bad" /\ re_search(patterns[k], text)

match_regex(text, patterns) ==
    IF patterns = <<>> THEN TRUE ELSE match_regex_from(text, patterns, 1)

\* url.split("/")[0] on a token sequence: a scheme token the regex left in
\* place is cut at its first "/".
SplitHead(tok) ==
    CASE tok = "ftp://" -> <<"ftp:">>
      [] tok = "HTTP://" -> <<"HTTP:">>
      [] tok = "/" -> <<>>
      [] OTHER -> <<tok>>

\* re.sub(r"^https?://(www\.)?", "", url).split("/")[0]
extract_domain(url) ==
    LET s1 == IF url # <<>> /\ Head(url) \in {"http://", "https://"}
              THEN (IF Len(url) >= 2 /\ url[2] = "www." THEN SubSeq(url, 3, Len(url))
                    ELSE Tail(url))
              ELSE url
    IN  IF s1 = <<>> THEN <<>> ELSE SplitHead(Head(s1))

match_domains_allow_only(url, whitelist, blacklist) ==
    whitelist = {} \/ extract_domain(url) \in whitelist

match_domains(url, whitelist, blacklist) ==
    LET domain == extract_domain(url)
    IN  IF whitelist # {} /\ domain \notin whitelist THEN FALSE
        ELSE IF blacklist # {} /\ domain \in blacklist THEN FALSE
        ELSE TRUE

\* An Optional[str] clock field is [kind, h, m]: kind "none" is None, "empty"
\* is "", "junk" is text strptime cannot read, and "hm" is the text "h:m".
NoClock == [kind |-> "none", h |-> 0, m |-> 0]

HM(h, m) == [kind |-> "hm", h |-> h, m |-> m]

\* datetime.strptime(s, "%H:%M").time(), in seconds after midnight; NoDate
\* stands for the ValueError.
strptime(s) ==
    IF s.kind = "hm" /\ s.h \in 0..23 /\ s.m \in 0..59
    THEN (s.h * 60 + s.m) * 60
    ELSE NoDate

\* A strict reading of the first branch: equal start and end is an empty window.
is_in_quiet_hours_empty_when_equal(now, start, end) ==
    IF start.kind \in {"none", "empty"} \/ end.kind \in {"none", "empty"} THEN FALSE
    ELSE IF strptime(start) = NoDate \/ strptime(end) = NoDate THEN FALSE
    ELSE LET start_time == strptime(start)
             end_time == strptime(end)
         IN  IF start_time <= end_time
             THEN start_time <= now /\ now < end_time
             ELSE now >= start_time \/ now <= end_time

\* now is now.time(), in seconds after midnight.
is_in_quiet_hours(now, start, end) ==
    IF start.kind \in {"none", "empty"} \/ end.kind \in {"none", "empty"} THEN FALSE
    ELSE IF strptime(start) = NoDate \/ strptime(end) = NoDate THEN FALSE
    ELSE LET start_time == strptime(start)
             end_time == strptime(end)
         IN  IF start_time < end_time
             THEN start_time <= now /\ now <= end_time
             ELSE now >= start_time \/ now <= end_time

(***************************************************************************)
(* Identifiers.  A document's _id is <<"o", n>>, an ObjectId.  A FluxInDB  *)
(* id is a str: <<"s", n>> is str(ObjectId n) and <<"u", n>> is a uuid4    *)
(* string, the default of the id field.  A job id is f"flux_{flux.id}",    *)
(* which is one-to-one with flux.id, so the model uses flux.id for it.     *)
(***************************************************************************)
Oid(n) == <<"o", n>>

\* str(result.inserted_id)
Str(oid) == <<"s", oid[2]>>

\* ObjectId(flux_id) if ObjectId.is_valid(flux_id) else flux_id
ToOid(flux_id) == IF flux_id[1] = "s" THEN <<"o", flux_id[2]>> ELSE flux_id

Uuid(n) == <<"u", n>>

CheckNowJob == <<"now", 0>>   \* the "job" of a cycle started by check_flux_now

Oids == {Oid(n) : n \in 1..MaxFlux}

RequestIds == {Str(o) : o \in Oids}

Uuids == {Uuid(n) : n \in 1..(MaxFlux + MaxCycles)}

default_check_interval == 300

AggressiveInterval == 10

DefaultMaxPerRun == 5

\* settings.sent_items_retention_days
sent_items_retention_days == 7

VARIABLES
    phase,            \* "boot" before lifespan has started the scheduler, then "up"
    fluxes,           \* the collection: _id -> document
    nextOid,          \* the next ObjectId insert_one hands out
    jobs,             \* the scheduler's job store: records [id, flux, interval]
    aggressive_mode,  \* SchedulerService.aggressive_mode
    cycles,           \* the running check coroutines: a bag of frames of check_and_send_flux
    sent_items,       \* the sent_items table: rows [flux_id, item_url, sent_at]
    posted,           \* the sink: <<key, n>> for the n-th message posted for key
    feeds,            \* the remote feed documents: url -> entries
    clock,            \* datetime.now().time(), seconds after midnight
    sinkFailed,       \* history: some send_to_discord call raised
    unsaved,          \* history: <<key, n>> for a key whose update_one raised when
                      \* the sink held n messages for it
    last              \* what the check cycle that ended last returned

vars == <<phase, fluxes, nextOid, jobs, aggressive_mode, cycles, sent_items,
          posted, feeds, clock, sinkFailed, unsaved, last>>

(***************************************************************************)
(* models.py: FluxInDB built from a document.  The document's _id is not a *)
(* field of the model and is dropped; src remembers it (history only).     *)
(***************************************************************************)
FluxInDB(doc, id, src) == [id |-> id, src |-> src] @@ doc

\* FluxInDB.checkInterval
checkInterval(flux) == flux.interval

(***************************************************************************)
(* db.py                                                                   *)
(***************************************************************************)
already_sent_never(rows, item_url) == FALSE

already_sent(rows, item_url) == \E r \in rows : r.item_url = item_url

\* INSERT INTO sent_items (flux_id, item_url): sent_at takes its default,
\* CURRENT_TIMESTAMP; the UNIQUE constraint on item_url makes the insert of
\* a key that has a row raise sqlite3.IntegrityError and add nothing.
insert(rows, flux_id, item_url, now) ==
    IF \E r \in rows : r.item_url = item_url
    THEN [rows |-> rows, raised |-> "IntegrityError"]
    ELSE [rows |-> rows \cup {[flux_id |-> flux_id, item_url |-> item_url,
                               sent_at |-> now]},
          raised |-> None]

mark_as_sent_replace(rows, flux_id, item_url, now) ==
    [rows |-> {r \in rows : r.item_url # item_url}
                  \cup {[flux_id |-> flux_id, item_url |-> item_url, sent_at |-> now]},
     raised |-> None]

\* try: INSERT ... except sqlite3.IntegrityError: pass
mark_as_sent(rows, flux_id, item_url, now) ==
    LET res == insert(rows, flux_id, item_url, now)
    IN  [rows |-> res.rows,
         raised |-> IF res.raised = "IntegrityError" THEN None ELSE res.raised]

cleanup_old_entries_inclusive(rows, days, now) ==
    LET old == {r \in rows : r.sent_at <= now - days * 24 * 60 * 60}
    IN  [rows |-> rows \ old, deleted |-> Cardinality(old)]

\* DELETE FROM sent_items WHERE sent_at < datetime('now', '-{days} days');
\* the answer is c.rowcount.  Timestamps are in seconds.
cleanup_old_entries(rows, days, now) ==
    LET old == {r \in rows : r.sent_at < now - days * 24 * 60 * 60}
    IN  [rows |-> rows \ old, deleted |-> Cardinality(old)]

(***************************************************************************)
(* rss_service.py: check_and_send_flux.                                    *)
(***************************************************************************)
max_per_run(flux) == IF flux.maxPerRun = 0 THEN DefaultMaxPerRun ELSE flux.maxPerRun

Title(entry) == IF entry.title = <<>> THEN <<"Sans", "titre">> ELSE entry.title

full_text(entry) == <<Title(entry), entry.summary>>

Link(entry) == strip(extract_item_link(entry))

\* Lines 229-240: the filters after the dedup step, in the code's order.
passes_filters(flux, entry) ==
    LET text == full_text(entry)
    IN  IF ~filter_by_language(text, flux.language) THEN FALSE
        ELSE IF flux.includeKeywords # <<>> /\ ~match_keywords(text, flux.includeKeywords)
        THEN FALSE
        ELSE IF flux.excludeKeywords # <<>> /\ match_keywords(text, flux.excludeKeywords)
        THEN FALSE
        ELSE IF flux.regexInclude # <<>> /\ ~match_regex(text, flux.regexInclude)
        THEN FALSE
        ELSE IF flux.regexExclude # <<>> /\ match_regex(text, flux.regexExclude)
        THEN FALSE
        ELSE match_domains(Link(entry), flux.domainWhitelist, flux.domainBlacklist)

\* The for loop of lines 205-240 from entry i on, up to the next call of
\* send_to_discord or the end of the loop.  Nothing in it suspends, so it
\* reads one state of the table.  send says whether entry i is being sent.
RECURSIVE Scan_per_feed(_, _, _, _, _, _, _)
Scan_per_feed(flux, entries, i, sent_count, seen_items, now, rows) ==
    IF i > Len(entries) \/ sent_count >= max_per_run(flux)
    THEN [i |-> i, seen_items |-> seen_items, send |-> FALSE]
    ELSE LET entry == entries[i]
             link == Link(entry)
         IN  IF link = <<>>
             THEN Scan_per_feed(flux, entries, i + 1, sent_count, seen_items, now, rows)
             ELSE IF is_in_quiet_hours(now, flux.quietHoursStart, flux.quietHoursEnd)
             THEN Scan_per_feed(flux, entries, i + 1, sent_count, seen_items, now, rows)
             ELSE IF link \in seen_items \/ (\E r \in rows : r.item_url = link /\ r.flux_id = flux.id)
             THEN Scan_per_feed(flux, entries, i + 1, sent_count, seen_items, now, rows)
             ELSE IF ~passes_filters(flux, entry)
             THEN Scan_per_feed(flux, entries, i + 1, sent_count, seen_items \cup {link}, now, rows)
             ELSE [i |-> i, seen_items |-> seen_items \cup {link}, send |-> TRUE]

RECURSIVE Scan_forgets_send(_, _, _, _, _, _, _)
Scan_forgets_send(flux, entries, i, sent_count, seen_items, now, rows) ==
    IF i > Len(entries) \/ sent_count >= max_per_run(flux)
    THEN [i |-> i, seen_items |-> seen_items, send |-> FALSE]
    ELSE LET entry == entries[i]
             link == Link(entry)
         IN  IF link = <<>>
             THEN Scan_forgets_send(flux, entries, i + 1, sent_count, seen_items, now, rows)
             ELSE IF is_in_quiet_hours(now, flux.quietHoursStart, flux.quietHoursEnd)
             THEN Scan_forgets_send(flux, entries, i + 1, sent_count, seen_items, now, rows)
             ELSE IF link \in seen_items \/ already_sent(rows, link)
             THEN Scan_forgets_send(flux, entries, i + 1, sent_count, seen_items, now, rows)
             ELSE IF ~passes_filters(flux, entry)
             THEN Scan_forgets_send(flux, entries, i + 1, sent_count, seen_items \cup {link}, now, rows)
             ELSE [i |-> i, seen_items |-> seen_items, send |-> TRUE]

RECURSIVE Scan(_, _, _, _, _, _, _)
Scan(flux, entries, i, sent_count, seen_items, now, rows) ==
    IF i > Len(entries) \/ sent_count >= max_per_run(flux)
    THEN [i |-> i, seen_items |-> seen_items, send |-> FALSE]
    ELSE LET entry == entries[i]
             link == Link(entry)
         IN  IF link = <<>>
             THEN Scan(flux, entries, i + 1, sent_count, seen_items, now, rows)
             ELSE IF is_in_quiet_hours(now, flux.quietHoursStart, flux.quietHoursEnd)
             THEN Scan(flux, entries, i + 1, sent_count, seen_items, now, rows)
             ELSE IF link \in seen_items \/ already_sent(rows, link)
             THEN Scan(flux, entries, i + 1, sent_count, seen_items, now, rows)
             ELSE IF ~passes_filters(flux, entry)
             THEN Scan(flux, entries, i + 1, sent_count, seen_items \cup {link}, now, rows)
             ELSE [i |-> i, seen_items |-> seen_items \cup {link}, send |-> TRUE]

(***************************************************************************)
(* A running check cycle is the frame of check_and_send_flux suspended in  *)
(* one of its two awaits: pc "send" in send_to_discord for entries[i], pc  *)
(* "update" in collection.update_one after entries[i] was sent.  sent,     *)
(* failed, rows0 and missed are history: the keys this cycle delivered and *)
(* the keys whose send raised, in order, the table as it was when the      *)
(* cycle started, and whether a fire of the cycle's job was refused while  *)
(* it ran.                                                                 *)
(***************************************************************************)
Running == BagToSet(cycles)

\* executor._instances[job.id]
instances(job_id) ==
    LET of == {c \in Running : c.job = job_id}
    IN  IF of = {} THEN 0 ELSE BagCardinality([c \in of |-> cycles[c]])

Remove(f, x) == [y \in DOMAIN f \ {x} |-> f[y]]

Result(frame, error) ==
    [op |-> "cycle", entries |-> frame.entries,
     now |-> frame.now, rows0 |-> frame.rows0, sent |-> frame.sent,
     failed |-> frame.failed, sent_count |-> frame.sent_count, error |-> error]

\* parse_feed: feedparser.parse(url) returns the document or raises; the
\* origins of FlakyUrls sometimes make it raise.
FlakyUrls == {"u2"}

parse_feed(url) == IF url \in FlakyUrls THEN {"ok", "raise"} ELSE {"ok"}

\* Lines 285-289: the outer except clause: the cycle ends and returns the
\* text of the exception; nothing else is touched.
AfterCycleError_cancel_all(frame, error) ==
    /\ cycles' = EmptyBag
    /\ last' = Result([frame EXCEPT !.entries = <<>>], error)

AfterCycleError(frame, error) ==
    /\ cycles' = cycles
    /\ last' = Result([frame EXCEPT !.entries = <<>>], error)

\* Lines 189-240 and 285-289: fetch, sort, and the loop up to the first
\* send; an exception of the fetch ends the cycle with result["error"] set
\* to its text, which the model takes to be the url.
StartCycle(job_id, flux) ==
    LET entries == sort_entries_by_date(feeds[flux.rssUrl])
        scan == Scan(flux, entries, 1, 0, {}, clock, sent_items)
        frame == [job |-> job_id, flux |-> flux, entries |-> entries, i |-> scan.i,
                  sent_count |-> 0, seen_items |-> scan.seen_items, now |-> clock,
                  pc |-> "send", sent |-> <<>>, failed |-> <<>>, rows0 |-> sent_items,
                  missed |-> FALSE]
    IN  /\ BagCardinality(cycles) < MaxCycles
        /\ \E fetched \in parse_feed(flux.rssUrl) :
               IF fetched = "raise"
               THEN AfterCycleError(frame, flux.rssUrl)
               ELSE IF scan.send
               THEN /\ cycles' = cycles (+) SetToBag({frame})
                    /\ last' = last
               ELSE /\ cycles' = cycles
                    /\ last' = Result(frame, None)

Resume_runs_missed(frame, at) ==
    LET scan == Scan(at.flux, at.entries, at.i + 1, at.sent_count,
                     at.seen_items, at.now, sent_items')
        again == Scan(at.flux, at.entries, 1, 0, {}, clock, sent_items')
    IN  IF scan.send
        THEN /\ cycles' = (cycles (-) SetToBag({frame})) (+) SetToBag({
                    [at EXCEPT !.i = scan.i, !.seen_items = scan.seen_items,
                               !.pc = "send"]})
             /\ last' = last
        ELSE IF at.missed /\ again.send
        THEN /\ cycles' = (cycles (-) SetToBag({frame})) (+) SetToBag({
                    [at EXCEPT !.i = again.i, !.seen_items = again.seen_items,
                               !.pc = "send", !.sent_count = 0, !.sent = <<>>,
                               !.failed = <<>>, !.rows0 = sent_items',
                               !.missed = FALSE]})
             /\ last' = Result(at, None)
        ELSE /\ cycles' = cycles (-) SetToBag({frame})
             /\ last' = Result(at, None)

\* The loop resumes after entry i of the frame: up to the next send or the end.
Resume(frame, at) ==
    LET scan == Scan(at.flux, at.entries, at.i + 1, at.sent_count,
                     at.seen_items, at.now, sent_items')
    IN  IF scan.send
        THEN /\ cycles' = (cycles (-) SetToBag({frame})) (+) SetToBag({
                    [at EXCEPT !.i = scan.i, !.seen_items = scan.seen_items,
                               !.pc = "send"]})
             /\ last' = last
        ELSE /\ cycles' = cycles (-) SetToBag({frame})
             /\ last' = Result(at, None)

Post(key) ==
    posted \cup {<<key, Min(Cardinality({p \in posted : p[1] = key}) + 1, MaxPosts)>>}

PostCount(key) == Cardinality({p \in posted : p[1] = key})

\* discord_utils.py, send_to_discord: what the awaited call does before it
\* returns or raises.  In thread mode the message is sent and then
\* create_thread is awaited, which can raise after the message is out.
SinkOutcomes(flux) ==
    IF flux.mode = "thread" THEN {"ok", "fail", "posted_fail"} ELSE {"ok", "fail"}

\* Lines 281-283: the except clause of the send logs and continues with
\* the next entry.
AfterSendError_abort(frame, link) ==
    /\ cycles' = cycles (-) SetToBag({frame})
    /\ last' = Result([frame EXCEPT !.failed = Append(@, link)], None)

AfterSendError_counts(frame, link) ==
    Resume(frame, [frame EXCEPT !.failed = Append(@, link), !.sent_count = @ + 1])

AfterSendError(frame, link) ==
    Resume(frame, [frame EXCEPT !.failed = Append(@, link)])

\* Lines 253-264 and 281-283: send_to_discord returns or raises; after a
\* return the item is marked and counted, and update_one is awaited.
SendDone_marks_first(frame, outcome) ==
    /\ frame \in Running
    /\ frame.pc = "send"
    /\ outcome \in SinkOutcomes(frame.flux)
    /\ LET link == Link(frame.entries[frame.i])
       IN  /\ posted' = IF outcome = "fail" THEN posted ELSE Post(link)
           /\ sinkFailed' = (sinkFailed \/ outcome # "ok")
           /\ IF outcome = "ok"
              THEN /\ sent_items' = mark_as_sent(sent_items, frame.flux.id, link, clock).rows
                   /\ cycles' = (cycles (-) SetToBag({frame})) (+) SetToBag({
                          [frame EXCEPT !.sent_count = @ + 1, !.pc = "update",
                                        !.sent = Append(@, link)]})
                   /\ last' = last
              ELSE /\ sent_items' = mark_as_sent(sent_items, frame.flux.id, link, clock).rows
                   /\ AfterSendError(frame, link)
    /\ UNCHANGED <<phase, fluxes, nextOid, jobs, aggressive_mode, feeds, clock, unsaved>>

SendDone(frame, outcome) ==
    /\ frame \in Running
    /\ frame.pc = "send"
    /\ outcome \in SinkOutcomes(frame.flux)
    /\ LET link == Link(frame.entries[frame.i])
       IN  /\ posted' = IF outcome = "fail" THEN posted ELSE Post(link)
           /\ sinkFailed' = (sinkFailed \/ outcome # "ok")
           /\ IF outcome = "ok"
              THEN /\ sent_items' = mark_as_sent(sent_items, frame.flux.id, link, clock).rows
                   /\ cycles' = (cycles (-) SetToBag({frame})) (+) SetToBag({
                          [frame EXCEPT !.sent_count = @ + 1, !.pc = "update",
                                        !.sent = Append(@, link)]})
                   /\ last' = last
              ELSE /\ sent_items' = sent_items
                   /\ AfterSendError(frame, link)
    /\ UNCHANGED <<phase, fluxes, nextOid, jobs, aggressive_mode, feeds, clock, unsaved>>

\* collection.update_one({"_id": flux.id}, {"$set": ...}): the documents
\* whose _id equals flux.id, a str.
update_metadata(coll, flux, link, pub, total) ==
    [d \in DOMAIN coll |->
        IF d = flux.id
        THEN [coll[d] EXCEPT !.lastItem = link, !.lastPubDate = pub, !.totalSent = total]
        ELSE coll[d]]

\* Lines 278-279: the except clause of the update logs; the loop goes on.
AfterUpdateError_abort(frame) ==
    /\ cycles' = cycles (-) SetToBag({frame})
    /\ last' = Result(frame, "db_err")

AfterUpdateError(frame) == Resume(frame, frame)

\* Lines 266-279: update_one returns or raises; the loop goes on.
UpdateDone(frame, outcome) ==
    /\ frame \in Running
    /\ frame.pc = "update"
    /\ outcome \in {"ok", "fail"}
    /\ LET entry == frame.entries[frame.i]
       IN  /\ fluxes' = IF outcome = "ok"
                        THEN update_metadata(fluxes, frame.flux, Link(entry),
                                             extract_item_date(entry),
                                             frame.flux.totalSent + frame.sent_count)
                        ELSE fluxes
           /\ unsaved' = IF outcome = "ok" THEN unsaved
                         ELSE unsaved \cup {<<Link(entry), PostCount(Link(entry))>>}
           /\ sent_items' = sent_items
           /\ IF outcome = "ok" THEN Resume(frame, frame) ELSE AfterUpdateError(frame)
    /\ UNCHANGED <<phase, nextOid, jobs, aggressive_mode, posted, feeds, clock,
                   sinkFailed>>

(***************************************************************************)
(* scheduler_service.py                                                    *)
(***************************************************************************)
\* Lines 64-68
interval_seconds(flux, aggressive) ==
    IF aggressive THEN AggressiveInterval
    ELSE IF checkInterval(flux) # 0 THEN checkInterval(flux)
    ELSE default_check_interval

\* schedule_flux: the job with this id is removed, if any, and a job with
\* the flux as its argument is added (max_instances=1).
schedule_flux(js, flux, aggressive) ==
    {j \in js : j.id # flux.id}
        \cup {[id |-> flux.id, flux |-> flux,
               interval |-> interval_seconds(flux, aggressive)]}

\* unschedule_flux: the job f"flux_{flux_id}" is removed; returns whether it was there.
unschedule_flux_all(js, flux_id) == {}

unschedule_flux(js, flux_id) == {j \in js : j.id # flux_id}

\* unschedule_flux, its return value: get_job(job_id) found a job.
unschedule_found(js, flux_id) == \E j \in js : j.id = flux_id

\* uuid4() never repeats: the model takes the least uuid no running cycle
\* still carries (the job store is empty when reload draws them).
FreeUuids == {u \in Uuids : \A c \in Running : c.job # u}

RECURSIVE LeastN(_, _)
LeastN(S, k) ==
    IF k = 0 \/ S = {} THEN <<>>
    ELSE LET m == CHOOSE x \in S : \A y \in S : x[2] <= y[2]
         IN  <<m>> \o LeastN(S \ {m}, k - 1)

RECURSIVE SeqOfSet(_)
SeqOfSet(S) ==
    IF S = {} THEN <<>>
    ELSE LET m == CHOOSE x \in S : \A y \in S : x[2] <= y[2]
         IN  <<m>> \o SeqOfSet(S \ {m})

reload_all_schedules_keep(coll, aggressive) ==
    LET active == SeqOfSet({d \in DOMAIN coll : coll[d].active})
        ids == LeastN(FreeUuids \ {j.id : j \in jobs}, Len(active))
    IN  jobs \cup
        {[id |-> ids[k], flux |-> FluxInDB(coll[active[k]], ids[k], active[k]),
          interval |-> interval_seconds(FluxInDB(coll[active[k]], ids[k], active[k]),
                                        aggressive)] : k \in 1..Len(active)}

\* reload_all_schedules: remove_all_jobs(), then schedule_flux for every
\* document with active = True.  FluxInDB(**flux_data) is given no id (the
\* document carries _id, which is not a field), so id is a fresh uuid4.
reload_all_schedules(coll, aggressive) ==
    LET active == SeqOfSet({d \in DOMAIN coll : coll[d].active})
        ids == LeastN(FreeUuids, Len(active))
    IN  {[id |-> ids[k], flux |-> FluxInDB(coll[active[k]], ids[k], active[k]),
          interval |-> interval_seconds(FluxInDB(coll[active[k]], ids[k], active[k]),
                                        aggressive)] : k \in 1..Len(active)}

\* The executor's submit_job for a due job: with max_instances=1 a job whose
\* previous run has not ended is not run (MaxInstancesReachedError, logged).
MayRun_unbounded(job) == TRUE

MayRun(job) == instances(job.id) < 1

\* The refused fire leaves no trace in the program; the frames of the job
\* remember it.
Refused(job_id) ==
    LET of == {c \in Running : c.job = job_id}
        rest == Running \ of
    IN  [c \in rest |-> cycles[c]] (+)
        SetToBag({[c EXCEPT !.missed = TRUE] : c \in of})

\* A timer of the job store fires: _check_flux_job(flux) with the flux the
\* job was added with.
Fire(job) ==
    /\ phase = "up"
    /\ job \in jobs
    /\ IF ~MayRun(job)
       THEN /\ cycles' = Refused(job.id)
            /\ last' = last
       ELSE IF ~job.flux.active
       THEN UNCHANGED <<cycles, last>>
       ELSE StartCycle(job.id, job.flux)
    /\ UNCHANGED <<phase, fluxes, nextOid, jobs, aggressive_mode, sent_items, posted,
                   feeds, clock, sinkFailed, unsaved>>

(***************************************************************************)
(* routers/fluxes.py and routers/stats.py: the request handlers.  Each is  *)
(* one action: the claims about them are about requests that do not        *)
(* overlap.                                                                *)
(***************************************************************************)
Urls == {"u1", "u2"}

BaseDoc ==
    [active |-> TRUE, interval |-> 300, rssUrl |-> "u1", mode |-> "direct",
     language |-> None, includeKeywords |-> <<>>, excludeKeywords |-> <<>>,
     regexInclude |-> <<>>, regexExclude |-> <<>>, domainWhitelist |-> {},
     domainBlacklist |-> {}, maxPerRun |-> 5, quietHoursStart |-> NoClock,
     quietHoursEnd |-> NoClock, totalSent |-> 0, lastItem |-> <<>>,
     lastPubDate |-> NoDate, lastError |-> None]

\* The FluxCreate bodies the model sends.
FluxCreates == {[BaseDoc EXCEPT !.active = a] : a \in BOOLEAN}

\* The FluxUpdate bodies the model sends: model_dump(exclude_unset=True).
FluxUpdates == {[active |-> a] : a \in BOOLEAN}

\* create_flux
create_flux(flux) ==
    /\ phase = "up"
    /\ nextOid <= MaxFlux
    /\ LET doc == [flux EXCEPT !.totalSent = 0]
           oid == Oid(nextOid)
           flux_id == Str(oid)
       IN  /\ fluxes' = (oid :> doc) @@ fluxes
           /\ nextOid' = nextOid + 1
           /\ jobs' = IF doc.active
                      THEN schedule_flux(jobs, FluxInDB(doc, flux_id, oid), aggressive_mode)
                      ELSE jobs
    /\ UNCHANGED <<phase, aggressive_mode, cycles, sent_items, posted, feeds, clock,
                   sinkFailed, unsaved, last>>

\* update_flux; an unknown id is answered 404 and nothing changes.
update_flux(flux_id, flux_update) ==
    /\ phase = "up"
    /\ flux_id \in RequestIds
    /\ LET oid == ToOid(flux_id)
       IN  IF oid \notin DOMAIN fluxes
           THEN UNCHANGED <<fluxes, jobs>>
           ELSE LET updated_doc == flux_update @@ fluxes[oid]
                    flux_db == FluxInDB(updated_doc, flux_id, oid)
                IN  /\ fluxes' = [fluxes EXCEPT ![oid] = updated_doc]
                    /\ jobs' = IF flux_db.active
                               THEN schedule_flux(jobs, flux_db, aggressive_mode)
                               ELSE unschedule_flux(jobs, flux_id)
    /\ UNCHANGED <<phase, nextOid, aggressive_mode, cycles, sent_items, posted, feeds,
                   clock, sinkFailed, unsaved, last>>

\* delete_flux; an unknown id is answered 404 and nothing changes.
delete_flux(flux_id) ==
    /\ phase = "up"
    /\ flux_id \in RequestIds
    /\ LET oid == ToOid(flux_id)
       IN  IF oid \notin DOMAIN fluxes
           THEN UNCHANGED <<fluxes, jobs>>
           ELSE /\ fluxes' = Remove(fluxes, oid)
                /\ jobs' = unschedule_flux(jobs, flux_id)
    /\ UNCHANGED <<phase, nextOid, aggressive_mode, cycles, sent_items, posted, feeds,
                   clock, sinkFailed, unsaved, last>>

check_flux_now_schedules(flux_id) ==
    /\ phase = "up"
    /\ flux_id \in RequestIds
    /\ LET oid == ToOid(flux_id)
       IN  IF oid \notin DOMAIN fluxes
           THEN UNCHANGED <<cycles, last, jobs>>
           ELSE /\ StartCycle(CheckNowJob, FluxInDB(fluxes[oid], flux_id, oid))
                /\ jobs' = schedule_flux(jobs, FluxInDB(fluxes[oid], flux_id, oid),
                                         aggressive_mode)
    /\ UNCHANGED <<phase, fluxes, nextOid, aggressive_mode, sent_items, posted,
                   feeds, clock, sinkFailed, unsaved>>

\* check_flux_now: one cycle on the document as it is now, outside the
\* scheduler; an unknown id is answered 404.
check_flux_now(flux_id) ==
    /\ phase = "up"
    /\ flux_id \in RequestIds
    /\ LET oid == ToOid(flux_id)
       IN  IF oid \notin DOMAIN fluxes
           THEN UNCHANGED <<cycles, last>>
           ELSE StartCycle(CheckNowJob, FluxInDB(fluxes[oid], flux_id, oid))
    /\ UNCHANGED <<phase, fluxes, nextOid, jobs, aggressive_mode, sent_items, posted,
                   feeds, clock, sinkFailed, unsaved>>

\* The loop of bulk_actions over flux_ids from position k on; st is
\* [coll, js], the collection and the job store so far.
RECURSIVE BulkLoop(_, _, _, _, _)
BulkLoop(action, flux_ids, k, st, aggressive) ==
    IF k > Len(flux_ids) THEN st
    ELSE LET flux_id == flux_ids[k]
             oid == ToOid(flux_id)
             next ==
                 IF oid \notin DOMAIN st.coll THEN st
                 ELSE IF action = "delete"
                 THEN [coll |-> Remove(st.coll, oid),
                       js |-> unschedule_flux(st.js, flux_id)]
                 ELSE LET doc == [st.coll[oid] EXCEPT !.active = (action = "activate")]
                      IN  [coll |-> [st.coll EXCEPT ![oid] = doc],
                           js |-> IF action = "activate"
                                  THEN schedule_flux(st.js, FluxInDB(doc, flux_id, oid),
                                                     aggressive)
                                  ELSE unschedule_flux(st.js, flux_id)]
         IN  BulkLoop(action, flux_ids, k + 1, next, aggressive)

BulkActions == {"activate", "deactivate", "delete", "archive"}

BulkIdLists == {<<a>> : a \in RequestIds} \cup {SeqOfSet(RequestIds)}

bulk_result_unvalidated(action, flux_ids, coll, js, aggressive) ==
    [status |-> 200] @@ BulkLoop(action, flux_ids, 1, [coll |-> coll, js |-> js], aggressive)

\* Lines 275-318: an action that is not one of the three is answered 400
\* before the loop; otherwise the loop runs and the answer is 200.
bulk_result(action, flux_ids, coll, js, aggressive) ==
    IF action \notin {"activate", "deactivate", "delete"}
    THEN [status |-> 400, coll |-> coll, js |-> js]
    ELSE [status |-> 200] @@
         BulkLoop(action, flux_ids, 1, [coll |-> coll, js |-> js], aggressive)

\* bulk_actions
bulk_actions(action, flux_ids) ==
    /\ phase = "up"
    /\ action \in BulkActions
    /\ flux_ids \in BulkIdLists
    /\ LET res == bulk_result(action, flux_ids, fluxes, jobs, aggressive_mode)
       IN  /\ fluxes' = res.coll
           /\ jobs' = res.js
    /\ UNCHANGED <<phase, nextOid, aggressive_mode, cycles, sent_items, posted, feeds,
                   clock, sinkFailed, unsaved, last>>

\* bulk_actions with its answer kept: the status, and (history) the request
\* and a serial bit that tells an answer from the one before it.
bulk_actions_answered(action, flux_ids) ==
    /\ phase = "up"
    /\ action \in BulkActions
    /\ flux_ids \in BulkIdLists
    /\ LET res == bulk_result(action, flux_ids, fluxes, jobs, aggressive_mode)
       IN  /\ fluxes' = res.coll
           /\ jobs' = res.js
           /\ last' = [op |-> "bulk", action |-> action, flux_ids |-> flux_ids,
                       status |-> res.status,
                       serial |-> IF last.op = "bulk" THEN 1 - last.serial ELSE 0]
    /\ UNCHANGED <<phase, nextOid, aggressive_mode, cycles, sent_items, posted, feeds,
                   clock, sinkFailed, unsaved>>

\* stats.py, reload_scheduler
reload_scheduler ==
    /\ phase = "up"
    /\ jobs' = reload_all_schedules(fluxes, aggressive_mode)
    /\ UNCHANGED <<phase, fluxes, nextOid, aggressive_mode, cycles, sent_items, posted,
                   feeds, clock, sinkFailed, unsaved, last>>

\* reload_all_schedules, lines 154-177: scheduled_count is incremented after
\* each schedule_flux of the loop over the active documents.
scheduled_count(coll) == Len(SeqOfSet({d \in DOMAIN coll : coll[d].active}))

\* stats.py, reload_scheduler, with its answer kept: the result of
\* reload_all_schedules, and (history) how many jobs remove_all_jobs removed
\* and a serial bit that tells an answer from the one before it.
reload_scheduler_reply ==
    /\ phase = "up"
    /\ jobs' = reload_all_schedules(fluxes, aggressive_mode)
    /\ last' = [op |-> "reload", scheduled_count |-> scheduled_count(fluxes),
                removed |-> Cardinality(jobs),
                serial |-> IF last.op = "reload" THEN 1 - last.serial ELSE 0]
    /\ UNCHANGED <<phase, fluxes, nextOid, aggressive_mode, cycles, sent_items, posted,
                   feeds, clock, sinkFailed, unsaved>>

\* stats.py, toggle_aggressive_mode: set_aggressive_mode(enabled)
toggle_aggressive_mode(enabled) ==
    /\ phase = "up"
    /\ aggressive_mode' = enabled
    /\ jobs' = reload_all_schedules(fluxes, enabled)
    /\ UNCHANGED <<phase, fluxes, nextOid, cycles, sent_items, posted, feeds, clock,
                   sinkFailed, unsaved, last>>

\* main.py, lifespan up to the yield: the scheduler is initialised and
\* started, every active flux is scheduled, and the rows of sent_items older
\* than the retention period are deleted.
lifespan ==
    /\ phase = "boot"
    /\ phase' = "up"
    /\ jobs' = reload_all_schedules(fluxes, aggressive_mode)
    /\ sent_items' = cleanup_old_entries(sent_items, sent_items_retention_days, clock).rows
    /\ UNCHANGED <<fluxes, nextOid, aggressive_mode, cycles, posted, feeds,
                   clock, sinkFailed, unsaved, last>>

(***************************************************************************)
(* Spec: the scheduler, the request handlers and the check cycles, on one  *)
(* feed document whose entries carry one key.                              *)
(***************************************************************************)
Entry(link, id, title, summary, published, updated) ==
    [link |-> link, id |-> id, title |-> title, summary |-> summary,
     published |-> published, updated |-> updated]

K1 == <<"https://", "a.com", "/", "p1">>

K2 == <<"https://", "a.com", "/", "p2">>

SpecFeeds == [u \in Urls |-> <<Entry(Raw(FALSE, K1), EmptyStr, <<"news">>, <<>>, 2, NoDate)>>]

\* The state of the process when it starts: the collection and the
\* sent_items table of earlier runs, the feeds the origins serve, the
\* clock; nothing scheduled, nothing running.
InitOf(ph, coll, fds, rows, now) ==
    /\ phase = ph
    /\ fluxes = coll
    /\ nextOid = Cardinality(DOMAIN coll) + 1
    /\ jobs = {}
    /\ aggressive_mode = FALSE
    /\ cycles = EmptyBag
    /\ sent_items = rows
    /\ posted = {}
    /\ feeds = fds
    /\ clock = now
    /\ sinkFailed = FALSE
    /\ unsaved = {}
    /\ last = [op |-> "none"]

\* The collection is empty, or holds one active flux of an earlier run.
Init == \E coll \in {<<>>, (Oid(1) :> BaseDoc)} : InitOf("boot", coll, SpecFeeds, {}, 0)

Next ==
    \/ lifespan
    \/ \E flux \in FluxCreates : create_flux(flux)
    \/ \E flux_id \in RequestIds, flux_update \in FluxUpdates :
           update_flux(flux_id, flux_update)
    \/ \E flux_id \in RequestIds : delete_flux(flux_id)
    \/ \E flux_id \in RequestIds : check_flux_now(flux_id)
    \/ \E action \in BulkActions, flux_ids \in BulkIdLists :
           bulk_actions(action, flux_ids)
    \/ reload_scheduler
    \/ \E enabled \in BOOLEAN : toggle_aggressive_mode(enabled)
    \/ \E job \in jobs : Fire(job)
    \/ \E frame \in Running : SendDone(frame, "ok")
    \/ \E frame \in Running : UpdateDone(frame, "ok")

Spec == Init /\ [][Next]_vars

(***************************************************************************)
(* One feed document and its check cycles.  The specifications below start *)
(* the process on a collection holding one flux; lifespan schedules it and *)
(* its timer fires.  They differ in the inputs Init draws.                 *)
(***************************************************************************)
InitWith(doc, feed, rows, now) ==
    InitOf("boot", (Oid(1) :> doc), [u \in Urls |-> feed], rows, now)

SeqsUpTo(S, n) == UNION {[1..k -> S] : k \in 0..n}

\* The first fire of the flux's timer after startup.
FirstFire(job) ==
    /\ last.op = "none"
    /\ cycles = EmptyBag
    /\ Fire(job)

\* One cycle with a sink and a collection that answer.
NextOne ==
    \/ lifespan
    \/ \E job \in jobs : FirstFire(job)
    \/ \E frame \in Running : SendDone(frame, "ok")
    \/ \E frame \in Running : UpdateDone(frame, "ok")

K3 == <<"https://", "a.com", "/", "p3">>

Lit(w) == [kind |-> "lit", word |-> w]

BadPattern == [kind |-> "bad", word |-> "("]

(***************************************************************************)
(* SpecCap: one cycle over feeds of up to MaxEntries entries that repeat   *)
(* keys, tie or lack dates, carry the key in link or in id, with the cap   *)
(* at its default, 1 or 2, and "spam" excluded.                            *)
(***************************************************************************)
CapEntries ==
    { Entry(Raw(FALSE, K1), EmptyStr, <<"news">>, <<>>, 2, NoDate),
      Entry(Raw(FALSE, K2), EmptyStr, <<"news">>, <<>>, 1, NoDate),
      Entry(Raw(FALSE, K2), EmptyStr, <<"spam">>, <<>>, 2, NoDate),
      Entry(Raw(FALSE, K3), EmptyStr, <<"news">>, <<>>, NoDate, NoDate),
      Entry(Raw(TRUE, <<>>), Raw(FALSE, K1), <<"news">>, <<>>, 2, NoDate),
      Entry(EmptyStr, Raw(TRUE, K3), <<>>, <<"news">>, NoDate, 1) }

CapDocs ==
    {[BaseDoc EXCEPT !.maxPerRun = m, !.excludeKeywords = <<"spam">>] : m \in 0..2}

SpecCap ==
    /\ \E doc \in CapDocs, feed \in SeqsUpTo(CapEntries, MaxEntries),
          rows \in {{}, {[flux_id |-> Str(Oid(1)), item_url |-> K1, sent_at |-> 0]}} :
           InitWith(doc, feed, rows, 0)
    /\ [][NextOne]_vars

(***************************************************************************)
(* SpecFilter: one cycle over a feed of one entry, for every combination   *)
(* of the filter settings below.                                           *)
(***************************************************************************)
FilterTexts ==
    { <<<<"news">>, <<>>>>,
      <<<<"Le", "PROMO", "the", "news">>, <<>>>>,
      <<<<"promo", "le", "news">>, <<"spam">>>> }

FilterLinks ==
    { Raw(FALSE, K1),
      Raw(TRUE, <<"http://", "www.", "b.com", "/", "p1">>),
      Raw(TRUE, <<>>) }

FilterEntries ==
    {Entry(l, EmptyStr, t[1], t[2], 2, NoDate) : l \in FilterLinks, t \in FilterTexts}

FilterDocs ==
    {[BaseDoc EXCEPT !.language = la, !.includeKeywords = ik, !.excludeKeywords = ek,
                     !.regexInclude = ri, !.regexExclude = re,
                     !.domainWhitelist = wl, !.domainBlacklist = bl,
                     !.quietHoursStart = q[1], !.quietHoursEnd = q[2]] :
        la \in {None, "fr", "en", "de"},
        ik \in {<<>>, <<"promo">>},
        ek \in {<<>>, <<"spam">>},
        ri \in {<<>>, <<Lit("news")>>, <<BadPattern>>},
        re \in {<<>>, <<Lit("spam")>>, <<BadPattern>>, <<Lit("spam"), BadPattern>>},
        wl \in {{}, {<<"a.com">>}},
        bl \in {{}, {<<"b.com">>}},
        q \in {<<NoClock, NoClock>>, <<HM(22, 0), HM(6, 0)>>}}

SpecFilter ==
    /\ \E doc \in FilterDocs, entry \in FilterEntries,
          rows \in {{}, {[flux_id |-> Str(Oid(1)), item_url |-> K1, sent_at |-> 0]}} :
           InitWith(doc, <<entry>>, rows, 0)
    /\ [][NextOne]_vars

(***************************************************************************)
(* SpecQuiet: one cycle over a feed of one entry that no filter stops, for *)
(* a grid of quietHoursStart, quietHoursEnd and the time of the cycle.     *)
(***************************************************************************)
Clocks ==
    { NoClock, [kind |-> "empty", h |-> 0, m |-> 0], [kind |-> "junk", h |-> 0, m |-> 0],
      HM(0, 0), HM(6, 0), HM(22, 0), HM(23, 59), HM(24, 0) }

At(h, m, sec) == (h * 60 + m) * 60 + sec

QuietDocs ==
    {[BaseDoc EXCEPT !.quietHoursStart = s, !.quietHoursEnd = e] :
        s \in Clocks, e \in Clocks}

SpecQuiet ==
    /\ \E doc \in QuietDocs,
          now \in { At(0, 0, 0), At(6, 0, 0), At(6, 0, 1), At(12, 0, 0), At(21, 59, 59),
                    At(22, 0, 0), At(23, 30, 0), At(23, 59, 59) } :
           InitWith(doc, SpecFeeds["u1"], {}, now)
    /\ [][NextOne]_vars

(***************************************************************************)
(* SpecRegex: one cycle over a feed of one entry, for every regexInclude   *)
(* list of up to MaxPatterns patterns, valid or not, and no other filter.  *)
(***************************************************************************)
RegexPatterns == {Lit("news"), Lit("spam"), Lit("PROMO"), BadPattern}

RegexDocs ==
    {[BaseDoc EXCEPT !.regexInclude = ri] : ri \in SeqsUpTo(RegexPatterns, MaxPatterns)}

RegexEntries ==
    {Entry(Raw(FALSE, K1), EmptyStr, t[1], t[2], 2, NoDate) :
        t \in FilterTexts \cup {<<<<"big", "deal">>, <<>>>>}}

SpecRegex ==
    /\ \E doc \in RegexDocs, entry \in RegexEntries : InitWith(doc, <<entry>>, {}, 0)
    /\ [][NextOne]_vars

(***************************************************************************)
(* SpecFail: two active fluxes, one on an origin whose fetch sometimes     *)
(* raises, the other in thread mode; their timers fire and their cycles    *)
(* overlap; every send and every update may fail.                          *)
(***************************************************************************)
FailFeeds ==
    ("u1" :> <<Entry(Raw(FALSE, K1), EmptyStr, <<"news">>, <<>>, 2, NoDate)>>)
        @@ ("u2" :> <<Entry(Raw(FALSE, K2), EmptyStr, <<"news">>, <<>>, 1, NoDate)>>)

NextFail ==
    \/ lifespan
    \/ \E job \in jobs : Fire(job)
    \/ \E frame \in Running, outcome \in {"ok", "fail", "posted_fail"} :
           SendDone(frame, outcome)
    \/ \E frame \in Running, outcome \in {"ok", "fail"} : UpdateDone(frame, outcome)

SpecFail ==
    /\ InitOf("boot",
              (Oid(1) :> [BaseDoc EXCEPT !.rssUrl = "u2"])
                  @@ (Oid(2) :> [BaseDoc EXCEPT !.mode = "thread"]),
              FailFeeds, {}, 0)
    /\ [][NextFail]_vars

(***************************************************************************)
(* SpecLoop: the two fluxes of SpecFail on the event loop, the fetch shown *)
(* as a step of its own.  check_and_send_flux is a coroutine of the loop   *)
(* of AsyncIOScheduler; feedparser.parse(url) is a plain call in it, not   *)
(* an await, so from the call to its return the loop runs nothing else:    *)
(* no timer callback, no resumption of another coroutine.  A frame with pc *)
(* "fetch" is a cycle inside that call.                                    *)
(***************************************************************************)
Idle == \A c \in Running : c.pc # "fetch"

\* The loop runs the callback of a due timer.
LoopFire(job) ==
    /\ Idle
    /\ IF MayRun(job) /\ job.flux.active
       THEN /\ phase = "up"
            /\ job \in jobs
            /\ BagCardinality(cycles) < MaxCycles
            /\ cycles' = cycles (+) SetToBag({
                   [job |-> job.id, flux |-> job.flux, entries |-> <<>>, i |-> 0,
                    sent_count |-> 0, seen_items |-> {}, now |-> clock,
                    pc |-> "fetch", sent |-> <<>>, failed |-> <<>>,
                    rows0 |-> sent_items, missed |-> FALSE]})
            /\ UNCHANGED <<phase, fluxes, nextOid, jobs, aggressive_mode, sent_items,
                           posted, feeds, clock, sinkFailed, unsaved, last>>
       ELSE Fire(job)

\* feedparser.parse returns or raises, and the coroutine runs on to its
\* first await or to its end.
FetchDone(frame) ==
    LET flux == frame.flux
        entries == sort_entries_by_date(feeds[flux.rssUrl])
        scan == Scan(flux, entries, 1, 0, {}, clock, sent_items)
        at == [frame EXCEPT !.entries = entries, !.i = scan.i,
                            !.seen_items = scan.seen_items, !.now = clock,
                            !.pc = "send", !.rows0 = sent_items]
        rest == cycles (-) SetToBag({frame})
    IN  /\ frame \in Running
        /\ frame.pc = "fetch"
        /\ \E fetched \in parse_feed(flux.rssUrl) :
               IF fetched = "raise"
               THEN /\ cycles' = rest
                    /\ last' = Result([at EXCEPT !.entries = <<>>], flux.rssUrl)
               ELSE IF scan.send
               THEN /\ cycles' = rest (+) SetToBag({at})
                    /\ last' = last
               ELSE /\ cycles' = rest
                    /\ last' = Result(at, None)
        /\ UNCHANGED <<phase, fluxes, nextOid, jobs, aggressive_mode, sent_items,
                       posted, feeds, clock, sinkFailed, unsaved>>

SpecLoop ==
    /\ InitOf("boot",
              (Oid(1) :> [BaseDoc EXCEPT !.rssUrl = "u2"])
                  @@ (Oid(2) :> [BaseDoc EXCEPT !.mode = "thread"]),
              FailFeeds, {}, 0)
    /\ [][\/ lifespan
          \/ \E job \in jobs : LoopFire(job)
          \/ \E frame \in Running : FetchDone(frame)
          \/ \E frame \in Running, outcome \in {"ok", "fail"} :
                 Idle /\ SendDone(frame, outcome)
          \/ \E frame \in Running : Idle /\ UpdateDone(frame, "ok")]_vars

(***************************************************************************)
(* SpecMode: the requests that install timers, for fluxes of different     *)
(* intervals, with aggressive mode switched on and off; no timer fires.    *)
(***************************************************************************)
Intervals == {0, 30, 120}

ModeCreates == {[BaseDoc EXCEPT !.interval = n] : n \in Intervals}

ModeUpdates ==
    {[interval |-> n] : n \in Intervals} \cup {[active |-> a] : a \in BOOLEAN}

NextMode ==
    \/ lifespan
    \/ \E flux \in ModeCreates : create_flux(flux)
    \/ \E flux_id \in RequestIds, flux_update \in ModeUpdates :
           update_flux(flux_id, flux_update)
    \/ reload_scheduler
    \/ \E enabled \in BOOLEAN : toggle_aggressive_mode(enabled)

SpecMode ==
    /\ \E coll \in {<<>>} \cup {(Oid(1) :> doc) : doc \in ModeCreates} :
           InitOf("boot", coll, SpecFeeds, {}, 0)
    /\ [][NextMode]_vars

(***************************************************************************)
(* SpecStore: the sent_items table on its own.  Callers with different     *)
(* flux ids mark and query keys while the clock of the database advances.  *)
(***************************************************************************)
MaxClock == 3

StoreKeys == {"k1", "k2"}

StoreMark(flux_id, item_url) ==
    LET res == mark_as_sent(sent_items, flux_id, item_url, clock)
    IN  /\ sent_items' = res.rows
        /\ last' = [op |-> "mark_as_sent", flux_id |-> flux_id, item_url |-> item_url,
                    at |-> clock, raised |-> res.raised]
        /\ UNCHANGED <<phase, fluxes, nextOid, jobs, aggressive_mode, cycles, posted,
                       feeds, clock, sinkFailed, unsaved>>

StoreQuery(item_url) ==
    /\ last' = [op |-> "already_sent", item_url |-> item_url, at |-> clock,
                result |-> already_sent(sent_items, item_url)]
    /\ UNCHANGED <<phase, fluxes, nextOid, jobs, aggressive_mode, cycles, sent_items,
                   posted, feeds, clock, sinkFailed, unsaved>>

Tick ==
    /\ clock < MaxClock
    /\ clock' = clock + 1
    /\ UNCHANGED <<phase, fluxes, nextOid, jobs, aggressive_mode, cycles, sent_items,
                   posted, feeds, sinkFailed, unsaved, last>>

NextStore ==
    \/ \E flux_id \in {Str(Oid(1)), Uuid(1)}, item_url \in StoreKeys : StoreMark(flux_id, item_url)
    \/ \E item_url \in StoreKeys : StoreQuery(item_url)
    \/ Tick

SpecStore == InitOf("up", <<>>, SpecFeeds, {}, 0) /\ [][NextStore]_vars

(***************************************************************************)
(* SpecReload: the requests that change the collection and the job store,  *)
(* one after the other; the answers of reloads and of bulk actions are     *)
(* kept.  No timer fires.                                                  *)
(***************************************************************************)
NextReload ==
    \/ lifespan
    \/ \E flux \in FluxCreates : create_flux(flux)
    \/ \E flux_id \in RequestIds, flux_update \in FluxUpdates :
           update_flux(flux_id, flux_update)
    \/ \E flux_id \in RequestIds : delete_flux(flux_id)
    \/ \E action \in BulkActions, flux_ids \in BulkIdLists :
           bulk_actions_answered(action, flux_ids)
    \/ reload_scheduler_reply
    \/ \E enabled \in BOOLEAN : toggle_aggressive_mode(enabled)

SpecReload == Init /\ [][NextReload]_vars

(***************************************************************************)
(* SpecUnsched: the job store under the requests that schedule, and calls  *)
(* of scheduler_service.unschedule_flux whose return value is kept, with   *)
(* (history) the job store the call left and a serial bit.                 *)
(***************************************************************************)
unschedule_flux_call(flux_id) ==
    /\ phase = "up"
    /\ jobs' = unschedule_flux(jobs, flux_id)
    /\ last' = [op |-> "unschedule", flux_id |-> flux_id,
                result |-> unschedule_found(jobs, flux_id), after |-> jobs',
                serial |-> IF last.op = "unschedule" THEN 1 - last.serial ELSE 0]
    /\ UNCHANGED <<phase, fluxes, nextOid, aggressive_mode, cycles, sent_items, posted,
                   feeds, clock, sinkFailed, unsaved>>

SpecUnsched ==
    /\ Init
    /\ [][\/ lifespan
          \/ \E flux \in FluxCreates : create_flux(flux)
          \/ \E flux_id \in RequestIds, flux_update \in FluxUpdates :
                 update_flux(flux_id, flux_update)
          \/ reload_scheduler
          \/ \E flux_id \in RequestIds \cup Uuids : unschedule_flux_call(flux_id)]_vars

(***************************************************************************)
(* app/utils/url_resolver.py.  A url is a sequence of tokens, each a piece *)
(* of text; the tokens are chosen so that a marker the code searches for   *)
(* occurs in the text exactly where its tokens occur in the sequence.  A   *)
(* missing url (None) is NoUrl.                                            *)
(***************************************************************************)
NoUrl == [none |-> TRUE, s |-> <<>>]

Url(s) == [none |-> FALSE, s |-> s]

Occurrences(s, m) ==
    {i \in 1..Len(s) : i + Len(m) - 1 <= Len(s) /\ SubSeq(s, i, i + Len(m) - 1) = m}

\* m in s
contains(s, m) == Occurrences(s, m) # {}

\* s.split(m)[-1]
split_last(s, m) ==
    IF Occurrences(s, m) = {} THEN s
    ELSE LET i == CHOOSE x \in Occurrences(s, m) : \A y \in Occurrences(s, m) : y <= x
         IN  SubSeq(s, i + Len(m), Len(s))

\* s.split(m)[0]
split_first(s, m) ==
    IF Occurrences(s, m) = {} THEN s
    ELSE LET i == CHOOSE x \in Occurrences(s, m) : \A y \in Occurrences(s, m) : x <= y
         IN  SubSeq(s, 1, i - 1)

\* s.rstrip("/")
RECURSIVE rstrip(_)
rstrip(s) ==
    IF s # <<>> /\ s[Len(s)] = "/" THEN rstrip(SubSeq(s, 1, Len(s) - 1)) ELSE s

\* url.split(marker)[-1].split("/")[0].split("?")[0]
segment_after(s, m) == split_first(split_first(split_last(s, m), <<"/">>), <<"?">>)

Returned(s) == [raised |-> FALSE, value |-> Url(s)]

\* `marker in url` on None raises TypeError.
Raised == [raised |-> TRUE, value |-> NoUrl]

youtube_feed(param, id) == <<"https://www.youtube.com/feeds/videos.xml?", param>> \o id

_resolve_youtube_list_first(url) ==
    IF url.none THEN Raised
    ELSE IF contains(url.s, <<"list=">>)
    THEN Returned(youtube_feed("playlist_id=",
                               split_first(split_last(url.s, <<"list=">>), <<"&">>)))
    ELSE IF contains(url.s, <<"youtube.com", "/", "channel", "/">>)
    THEN Returned(youtube_feed("channel_id=",
                               segment_after(url.s, <<"youtube.com", "/", "channel", "/">>)))
    ELSE Returned(url.s)

\* Lines 42-72
_resolve_youtube(url) ==
    IF url.none THEN Raised
    ELSE IF contains(url.s, <<"youtube.com", "/", "channel", "/">>)
    THEN Returned(youtube_feed("channel_id=",
                               segment_after(url.s, <<"youtube.com", "/", "channel", "/">>)))
    ELSE IF contains(url.s, <<"youtube.com", "/", "@">>)
    THEN Returned(youtube_feed("user=", segment_after(url.s, <<"youtube.com", "/", "@">>)))
    ELSE IF contains(url.s, <<"youtube.com", "/", "user", "/">>)
    THEN Returned(youtube_feed("user=",
                               segment_after(url.s, <<"youtube.com", "/", "user", "/">>)))
    ELSE IF contains(url.s, <<"youtube.com", "/", "c", "/">>)
    THEN Returned(youtube_feed("user=",
                               segment_after(url.s, <<"youtube.com", "/", "c", "/">>)))
    ELSE IF contains(url.s, <<"list=">>)
    THEN Returned(youtube_feed("playlist_id=",
                               split_first(split_last(url.s, <<"list=">>), <<"&">>)))
    ELSE Returned(url.s)

\* Lines 74-81
_resolve_facebook(url, rsshub_base) ==
    IF url.none THEN Raised
    ELSE IF contains(url.s, <<"facebook.com", "/">>)
    THEN Returned(rstrip(rsshub_base) \o <<"/facebook/page/">>
                      \o segment_after(url.s, <<"facebook.com", "/">>))
    ELSE Returned(url.s)

\* Lines 83-90
_resolve_instagram(url, rsshub_base) ==
    IF url.none THEN Raised
    ELSE IF contains(url.s, <<"instagram.com", "/">>)
    THEN Returned(rstrip(rsshub_base) \o <<"/instagram/user/">>
                      \o segment_after(url.s, <<"instagram.com", "/">>))
    ELSE Returned(url.s)

\* Lines 92-99
_resolve_tiktok(url, rsshub_base) ==
    IF url.none THEN Raised
    ELSE IF contains(url.s, <<"tiktok.com", "/", "@">>)
    THEN Returned(rstrip(rsshub_base) \o <<"/tiktok/user/">>
                      \o segment_after(url.s, <<"tiktok.com", "/", "@">>))
    ELSE Returned(url.s)

\* The body of resolve's try block.
dispatch(url, source_type, rsshub_base) ==
    IF source_type = "youtube" THEN _resolve_youtube(url)
    ELSE IF source_type = "facebook" THEN _resolve_facebook(url, rsshub_base)
    ELSE IF source_type = "instagram" THEN _resolve_instagram(url, rsshub_base)
    ELSE IF source_type = "tiktok" THEN _resolve_tiktok(url, rsshub_base)
    ELSE [raised |-> FALSE, value |-> url]

resolve_uncaught(url, source_type, rsshub_base) == dispatch(url, source_type, rsshub_base)

\* Lines 14-40: except Exception: log and return url.
resolve(url, source_type, rsshub_base) ==
    LET res == dispatch(url, source_type, rsshub_base)
    IN  IF res.raised THEN [raised |-> FALSE, value |-> url] ELSE res

(***************************************************************************)
(* SpecResolve: one call of url_resolver.resolve on a url put together     *)
(* from a scheme, a host, a path marker, a name and a tail, or on None.    *)
(***************************************************************************)
SourceTypes == {"youtube", "facebook", "instagram", "tiktok", "rss", "web", None}

PathMarkers ==
    [none |-> <<>>, slash |-> <<"/">>, at |-> <<"/", "@">>,
     channel |-> <<"/", "channel", "/">>, user |-> <<"/", "user", "/">>,
     c |-> <<"/", "c", "/">>]

\* settings.rsshub_base: core, followed by so many "/".
Bases == {[core |-> <<"https://rsshub.app">>, slashes |-> n] : n \in 0..2}

ResolveInputs ==
    [source_type : SourceTypes, missing : {FALSE},
     scheme : {<<>>, <<"https://">>, <<"https://", "www.">>, <<"https://", "m.">>},
     host : {"youtube.com", "youtu.be", "facebook.com", "instagram.com", "tiktok.com",
             "example.org"},
     path : DOMAIN PathMarkers,
     name : {<<>>, <<"alice">>, <<"UC-abc">>},
     \* A tail is the rest of the url after the name; p is the value of
     \* its list= parameter, if it has one.
     tail : {[s |-> <<>>, list |-> FALSE, p |-> <<>>],
             [s |-> <<"/", "videos">>, list |-> FALSE, p |-> <<>>],
             [s |-> <<"?", "v=", "x1">>, list |-> FALSE, p |-> <<>>],
             [s |-> <<"?", "list=", "PL1">>, list |-> TRUE, p |-> <<"PL1">>],
             [s |-> <<"?", "v=", "x1", "&", "list=", "PL1", "&", "index=", "2">>,
              list |-> TRUE, p |-> <<"PL1">>],
             [s |-> <<"/", "playlist", "?", "list=">>, list |-> TRUE, p |-> <<>>]},
     base : Bases]
    \cup
    [source_type : SourceTypes, missing : {TRUE}, scheme : {<<>>}, host : {"example.org"},
     path : {"none"}, name : {<<>>}, tail : {[s |-> <<>>, list |-> FALSE, p |-> <<>>]},
     base : Bases]

\* The url of an input; a path marker none is followed by no name.
InputUrl(in) ==
    IF in.missing THEN NoUrl
    ELSE Url(in.scheme \o <<in.host>> \o PathMarkers[in.path]
                 \o (IF in.path = "none" THEN <<>> ELSE in.name) \o in.tail.s)

\* A request handler calls url_resolver.resolve (create_flux, update_flux,
\* preview_rss_feed), once in a behaviour.
Resolve ==
    /\ last.op = "none"
    /\ \E in \in ResolveInputs :
           last' = [op |-> "resolve", in |-> in, url |-> InputUrl(in),
                    result |-> resolve(InputUrl(in), in.source_type, in.base.core \o [i \in 1..in.base.slashes |-> "/"])]
    /\ UNCHANGED <<phase, fluxes, nextOid, jobs, aggressive_mode, cycles, sent_items,
                   posted, feeds, clock, sinkFailed, unsaved>>

SpecResolve == InitOf("up", <<>>, SpecFeeds, {}, 0) /\ [][Resolve]_vars

(***************************************************************************)
(* SpecRun: cycles of one flux that do not overlap, started by its timer   *)
(* or by check-now, with a sink and a collection that can fail.            *)
(***************************************************************************)
RunEntries ==
    { Entry(Raw(FALSE, K1), EmptyStr, <<"news">>, <<>>, 2, NoDate),
      Entry(Raw(FALSE, K2), EmptyStr, <<"news">>, <<>>, 1, NoDate),
      Entry(Raw(FALSE, K1), EmptyStr, <<"big", "news">>, <<>>, 1, NoDate) }

RunDocs ==
    {[BaseDoc EXCEPT !.maxPerRun = m, !.mode = mo] :
        m \in 1..2, mo \in {"direct", "thread"}}

\* A fire or a check-now request that finds no cycle running.
NextFire(job) == cycles = EmptyBag /\ Fire(job)

NextCheckNow(flux_id) == cycles = EmptyBag /\ check_flux_now(flux_id)

NextRun ==
    \/ lifespan
    \/ \E job \in jobs : NextFire(job)
    \/ \E flux_id \in RequestIds : NextCheckNow(flux_id)
    \/ \E frame \in Running, outcome \in {"ok", "fail", "posted_fail"} :
           SendDone(frame, outcome)
    \/ \E frame \in Running, outcome \in {"ok", "fail"} : UpdateDone(frame, outcome)

SpecRun ==
    /\ \E doc \in RunDocs, feed \in SeqsUpTo(RunEntries, MaxEntries) :
           InitWith(doc, feed, {}, 0)
    /\ [][NextRun]_vars

\* SpecLater: one flux with quiet hours from 22:00 to 06:00 and a cap of
\* 1 or 2, on a feed whose first key comes twice; between cycles, which do
\* not overlap, the time of day moves into and out of the quiet hours.
SpecLater ==
    /\ \E m \in 1..2 :
           InitWith([BaseDoc EXCEPT !.maxPerRun = m, !.quietHoursStart = HM(22, 0),
                                    !.quietHoursEnd = HM(6, 0)],
                    <<Entry(Raw(FALSE, K1), EmptyStr, <<"news">>, <<>>, 2, NoDate),
                      Entry(Raw(FALSE, K2), EmptyStr, <<"news">>, <<>>, 1, NoDate),
                      Entry(Raw(FALSE, K1), EmptyStr, <<"big", "news">>, <<>>, 1, NoDate)>>,
                    {}, At(23, 30, 0))
    /\ [][\/ NextRun
          \/ /\ cycles = EmptyBag
             /\ clock' \in {At(23, 30, 0), At(12, 0, 0)} \ {clock}
             /\ UNCHANGED <<phase, fluxes, nextOid, jobs, aggressive_mode, cycles,
                            sent_items, posted, feeds, sinkFailed, unsaved, last>>]_vars

\* SpecShared: two fluxes whose origins serve the same item, the second
\* one more; their cycles do not overlap.
SpecShared ==
    /\ InitOf("boot",
              (Oid(1) :> BaseDoc)
                  @@ (Oid(2) :> [BaseDoc EXCEPT !.rssUrl = "u2", !.mode = "thread"]),
              ("u1" :> <<Entry(Raw(FALSE, K1), EmptyStr, <<"news">>, <<>>, 2, NoDate)>>)
                  @@ ("u2" :> <<Entry(Raw(FALSE, K1), EmptyStr, <<"news">>, <<>>, 2, NoDate),
                                Entry(Raw(FALSE, K2), EmptyStr, <<"news">>, <<>>, 1, NoDate)>>),
              {}, 0)
    /\ [][NextRun]_vars

\* SpecSweep: the process starts eight days after the epoch of the table's
\* clock, on a table that holds rows of earlier runs for the two items of
\* the feed: a second older than the seven days of retention, exactly seven
\* days old, or a second younger.  The sink holds the message of each row.
SpecSweep ==
    /\ \E m \in 1..2,
          rows \in SUBSET [flux_id : {Str(Oid(1))}, item_url : {K1, K2},
                           sent_at : {At(24, 0, 0) - 1, At(24, 0, 0), At(24, 0, 0) + 1}] :
           /\ \A r1, r2 \in rows : r1.item_url = r2.item_url => r1 = r2
           /\ phase = "boot"
           /\ fluxes = (Oid(1) :> [BaseDoc EXCEPT !.maxPerRun = m])
           /\ nextOid = 2
           /\ jobs = {}
           /\ aggressive_mode = FALSE
           /\ cycles = EmptyBag
           /\ sent_items = rows
           /\ posted = {<<r.item_url, 1>> : r \in rows}
           /\ feeds = [u \in Urls |->
                          <<Entry(Raw(FALSE, K1), EmptyStr, <<"news">>, <<>>, 2, NoDate),
                            Entry(Raw(FALSE, K2), EmptyStr, <<"news">>, <<>>, 1, NoDate)>>]
           /\ clock = 8 * At(24, 0, 0)
           /\ sinkFailed = FALSE
           /\ unsaved = {}
           /\ last = [op |-> "none"]
    /\ [][NextRun]_vars

(***************************************************************************)
(* SpecNow: check-now requests, for the flux of the collection and for an  *)
(* id the collection does not hold, beside the timers lifespan installed   *)
(* (none of which fires); the 404 answer is kept in last.                  *)
(***************************************************************************)
NowFeeds ==
    {<<>>,
     <<Entry(Raw(FALSE, K1), EmptyStr, <<"news">>, <<>>, 2, NoDate)>>,
     <<Entry(Raw(FALSE, K1), EmptyStr, <<"news">>, <<>>, 2, NoDate),
       Entry(Raw(FALSE, K2), EmptyStr, <<"news">>, <<>>, 1, NoDate)>>,
     <<Entry(Raw(FALSE, K1), EmptyStr, <<"spam">>, <<>>, 2, NoDate)>>}

check_flux_now_answered(flux_id) ==
    IF flux_id \in RequestIds /\ ToOid(flux_id) \notin DOMAIN fluxes
    THEN /\ phase = "up"
         /\ last' = [op |-> "not_found", flux_id |-> flux_id]
         /\ UNCHANGED <<phase, fluxes, nextOid, jobs, aggressive_mode, cycles,
                        sent_items, posted, feeds, clock, sinkFailed, unsaved>>
    ELSE check_flux_now(flux_id)

NextNow ==
    \/ lifespan
    \/ \E flux_id \in RequestIds : check_flux_now_answered(flux_id)
    \/ \E enabled \in BOOLEAN : toggle_aggressive_mode(enabled)
    \/ \E frame \in Running, outcome \in {"ok", "fail"} : SendDone(frame, outcome)
    \/ \E frame \in Running : UpdateDone(frame, "ok")

SpecNow ==
    /\ \E doc \in CapDocs, feed \in NowFeeds : InitWith(doc, feed, {}, 0)
    /\ [][NextNow]_vars

(***************************************************************************)
(* SpecResched: one flux whose configuration is updated again and again    *)
(* while its timers fire and its cycles run.                               *)
(***************************************************************************)
ReschedUpdates == ModeUpdates \cup {[mode |-> m] : m \in {"direct", "thread"}}

NextResched ==
    \/ lifespan
    \/ \E flux_id \in RequestIds, flux_update \in ReschedUpdates :
           update_flux(flux_id, flux_update)
    \/ \E job \in jobs : Fire(job)
    \/ \E frame \in Running : SendDone(frame, "ok")
    \/ \E frame \in Running : UpdateDone(frame, "ok")

SpecResched ==
    /\ InitWith([BaseDoc EXCEPT !.interval = 120], SpecFeeds["u1"], {}, 0)
    /\ [][NextResched]_vars

(***************************************************************************)
(* The properties.                                                         *)
(***************************************************************************)
\* The timers and the running cycles of the document with this _id.
TimersOf(oid) == {j \in jobs : j.flux.src = oid}

CyclesOf(oid) ==
    LET of == {c \in Running : c.flux.src = oid}
    IN  IF of = {} THEN 0 ELSE BagCardinality([c \in of |-> cycles[c]])

\* C1: for one scheduled job, whatever fires arrive while a cycle of that
\* job is executing, at most one cycle of that job is executing.
C1_OneInstancePerJob ==
    \A c \in Running : c.job # CheckNowJob => instances(c.job) <= 1

\* C1 witness: a cycle of a job still in the job store is executing and a
\* fire of that job was refused meanwhile.
C1_Witness ==
    \E c \in Running : c.missed /\ \E j \in jobs : j.id = c.job

\* C2: at most one check cycle is in flight per feed, counting the fires of
\* every timer installed for it and the check-now requests.
C2_OneCyclePerFeed == \A oid \in Oids : CyclesOf(oid) <= 1

\* C4: overlapping cycles that see the same unsent key deliver it at most
\* once (no send fails and no sweep runs under Spec).
C4_OverlapDeliversOnce == \A p \in posted : p[2] <= 1

\* C5: after any sequence of completed feed-management requests, every
\* active feed has exactly one timer and every inactive feed has none.
C5_OneTimerPerActiveFeed ==
    phase = "up" =>
        \A oid \in DOMAIN fluxes :
            Cardinality(TimersOf(oid)) = IF fluxes[oid].active THEN 1 ELSE 0

\* C6: once a feed is deleted the scheduler holds no timer for it (an _id
\* is never handed out twice, so a timer of a document that is not in the
\* collection is the timer of a deleted feed).
C6_NoTimerAfterDelete == \A j \in jobs : j.flux.src \in DOMAIN fluxes

\* C3: with cycles that do not overlap, a sink that succeeds and no sweep,
\* every key is delivered at most once, over any sequence of cycles and
\* within one cycle whose entries repeat the key.
C3_SequentialDeliversOnce ==
    ~sinkFailed => \A key \in {p[1] : p \in posted} : PostCount(key) <= 1

\* C3 witness: a later cycle has ended whose entries held twice a key that
\* an earlier cycle had delivered, and no send has failed.
C3_Witness ==
    /\ ~sinkFailed
    /\ last.op = "cycle"
    /\ \E r \in last.rows0 : r.item_url = K1
    /\ \E i, j \in 1..Len(last.entries) :
           i < j /\ Link(last.entries[i]) = K1 /\ Link(last.entries[j]) = K1
    /\ <<K1, 1>> \in posted

(***************************************************************************)
(* rss_checker.py: check_flux, the function-style check cycle, and its own *)
(* helpers.  It shares db.py and discord_utils.py with RSSService.  A call *)
(* is computed as a whole: fails is the set of keys on which the sink      *)
(* raises, and the result holds the keys sent and marked and the keys      *)
(* whose send raised, each in the order of the loop.                       *)
(***************************************************************************)
rss_checker_match_keywords(text, keywords) ==
    keywords = <<>>
        \/ \E k \in DOMAIN keywords, l \in DOMAIN text :
               \E p \in DOMAIN text[l] : lower(text[l][p]) = lower(keywords[k])

\* The loop returns True at the first pattern that matches; re.search on
\* an invalid pattern raises re.error, and the except clause returns
\* expect; a loop that ends returns False.
rss_checker_match_regex_closed(text, patterns, expect) ==
    \E k \in DOMAIN patterns :
        /\ patterns[k].kind # "bad"
        /\ \E l \in DOMAIN text :
               \E p \in DOMAIN text[l] : lower(text[l][p]) = lower(patterns[k].word)

rss_checker_match_regex(text, patterns, expect) ==
    IF patterns = <<>> THEN expect
    ELSE LET hits(k) == \E l \in DOMAIN text :
                            \E p \in DOMAIN text[l] :
                                lower(text[l][p]) = lower(patterns[k].word)
             stops == {k \in DOMAIN patterns : patterns[k].kind = "bad" \/ hits(k)}
         IN  IF stops = {} THEN FALSE
             ELSE LET k == CHOOSE n \in stops : \A o \in stops : n <= o
                  IN  IF patterns[k].kind = "bad" THEN expect ELSE TRUE

\* re.sub(r"^https?://(www\.)?", "", url).split("/")[0]
rss_checker_extract_domain(url) ==
    LET scheme == url # <<>> /\ url[1] \in {"http://", "https://"}
        www == scheme /\ Len(url) >= 2 /\ url[2] = "www."
        rest == SubSeq(url, (IF www THEN 3 ELSE IF scheme THEN 2 ELSE 1), Len(url))
    IN  IF rest = <<>> THEN <<>>
        ELSE CASE rest[1] = "/" -> <<>>
               [] rest[1] = "ftp://" -> <<"ftp:">>
               [] rest[1] = "HTTP://" -> <<"HTTP:">>
               [] OTHER -> <<rest[1]>>

rss_checker_match_domains(url, whitelist, blacklist) ==
    LET domain == rss_checker_extract_domain(url)
    IN  /\ ~(whitelist # {} /\ domain \notin whitelist)
        /\ ~(blacklist # {} /\ domain \in blacklist)

within_quiet_hours(now, start, end) ==
    IF start.kind \in {"none", "empty"} \/ end.kind \in {"none", "empty"} THEN FALSE
    ELSE IF strptime(start) = NoDate \/ strptime(end) = NoDate THEN FALSE
    ELSE LET st == strptime(start)
             en == strptime(end)
         IN  IF st < en THEN st <= now /\ now <= en
             ELSE now >= st \/ now <= en

language_filter(text, language) ==
    LET spaced(m) == \E l \in DOMAIN text :
                         \E p \in 2..(Len(text[l]) - 1) : lower(text[l][p]) = m
    IN  CASE language \in {None, ""} -> TRUE
          [] language = "fr" ->
                 \E m \in {"le", "la", "les", "de", "des", "et", "a_grave", "pour", "sur"} :
                     spaced(m)
          [] language = "en" ->
                 \E m \in {"the", "and", "of", "for", "on", "with", "from"} : spaced(m)
          [] OTHER -> TRUE

getItemLinkOrGuid(entry) ==
    IF entry.link.pad \/ entry.link.core # <<>> THEN entry.link
    ELSE IF entry.id.pad \/ entry.id.core # <<>> THEN entry.id
    ELSE EmptyStr

getItemDate(entry) ==
    IF entry.published # NoDate THEN entry.published
    ELSE IF entry.updated # NoDate THEN entry.updated
    ELSE NoDate

\* sorted(entries, key=key, reverse=True) with key = getItemDate(e) or 0:
\* the first entry of the greatest key, then the others sorted.
RECURSIVE _sort_items(_)
_sort_items(entries) ==
    IF entries = <<>> THEN <<>>
    ELSE LET key(e) == IF getItemDate(e) = NoDate THEN 0 ELSE getItemDate(e)
             top == CHOOSE i \in DOMAIN entries :
                        /\ \A j \in DOMAIN entries : key(entries[j]) <= key(entries[i])
                        /\ \A j \in 1..(i - 1) : key(entries[j]) < key(entries[i])
         IN  <<entries[top]>>
                 \o _sort_items(SubSeq(entries, 1, top - 1)
                                    \o SubSeq(entries, top + 1, Len(entries)))

\* The for loop of lines 152-226 from entry k on.
RECURSIVE check_flux_loop(_, _, _, _, _, _, _, _, _)
check_flux_loop(flux, entries, k, sent_this_run, seen_items, now, rows, fails, out) ==
    IF k > Len(entries) THEN out
    ELSE IF sent_this_run >= (IF flux.maxPerRun = 0 THEN 5 ELSE flux.maxPerRun) THEN out
    ELSE LET e == entries[k]
             title == IF e.title = <<>> THEN <<"Sans", "titre">> ELSE e.title
             link == getItemLinkOrGuid(e).core
             text == <<title, e.summary>>
             skip(seen) == check_flux_loop(flux, entries, k + 1, sent_this_run, seen,
                                           now, rows, fails, out)
         IN  IF link = <<>> THEN skip(seen_items)
             ELSE IF within_quiet_hours(now, flux.quietHoursStart, flux.quietHoursEnd)
             THEN skip(seen_items)
             ELSE IF link \in seen_items \/ already_sent(rows, link) THEN skip(seen_items)
             ELSE IF ~language_filter(text, flux.language)
             THEN skip(seen_items \cup {link})
             ELSE IF flux.includeKeywords # <<>>
                         /\ ~rss_checker_match_keywords(text, flux.includeKeywords)
             THEN skip(seen_items \cup {link})
             ELSE IF flux.excludeKeywords # <<>>
                         /\ rss_checker_match_keywords(text, flux.excludeKeywords)
             THEN skip(seen_items \cup {link})
             ELSE IF flux.regexInclude # <<>>
                         /\ ~rss_checker_match_regex(text, flux.regexInclude, TRUE)
             THEN skip(seen_items \cup {link})
             ELSE IF flux.regexExclude # <<>>
                         /\ rss_checker_match_regex(text, flux.regexExclude, TRUE)
             THEN skip(seen_items \cup {link})
             ELSE IF ~rss_checker_match_domains(link, flux.domainWhitelist,
                                                flux.domainBlacklist)
             THEN skip(seen_items \cup {link})
             ELSE IF link \in fails
             THEN check_flux_loop(flux, entries, k + 1, sent_this_run,
                                  seen_items \cup {link}, now, rows, fails,
                                  [out EXCEPT !.failed = Append(@, link)])
             ELSE check_flux_loop(flux, entries, k + 1, sent_this_run + 1,
                                  seen_items \cup {link}, now,
                                  mark_as_sent(rows, flux.id, link, now).rows, fails,
                                  [out EXCEPT !.sent = Append(@, link)])

\* check_flux(flux, coll) on the document the origin serves, at time now,
\* with the table rows.
check_flux(flux, feed, now, rows, fails) ==
    check_flux_loop(flux, _sort_items(feed), 1, 0, {}, now, rows, fails,
                    [sent |-> <<>>, failed |-> <<>>])

(***************************************************************************)
(* The one-cycle specifications: the flux, its feed, and what the claims   *)
(* say of an item.                                                         *)
(***************************************************************************)
TheFlux == fluxes[Oid(1)]

TheFeed == feeds[TheFlux.rssUrl]

Ended == last.op = "cycle"

\* The table when the cycle started.
Rows0 ==
    IF cycles # EmptyBag THEN (CHOOSE c \in Running : TRUE).rows0
    ELSE IF Ended THEN last.rows0
    ELSE sent_items

\* The time of the cycle.
Now == clock

Key(entry) == Link(entry)

Stamp(entry) ==
    IF entry.published # NoDate THEN entry.published
    ELSE IF entry.updated # NoDate THEN entry.updated
    ELSE 0

\* The predicates of the filter chain, one by one.
UsableLink(entry) == Key(entry) # <<>>

NotQuiet == ~is_in_quiet_hours(Now, TheFlux.quietHoursStart, TheFlux.quietHoursEnd)

NotSentBefore(entry) == \A r \in Rows0 : r.item_url # Key(entry)

LanguageOk(entry) == filter_by_language(full_text(entry), TheFlux.language)

IncludeKeywordsOk(entry) ==
    TheFlux.includeKeywords = <<>>
        \/ match_keywords(full_text(entry), TheFlux.includeKeywords)

ExcludeKeywordsOk(entry) ==
    TheFlux.excludeKeywords = <<>>
        \/ ~match_keywords(full_text(entry), TheFlux.excludeKeywords)

IncludeRegexOk(entry) ==
    TheFlux.regexInclude = <<>> \/ match_regex(full_text(entry), TheFlux.regexInclude)

ExcludeRegexOk(entry) ==
    TheFlux.regexExclude = <<>> \/ ~match_regex(full_text(entry), TheFlux.regexExclude)

DomainOk(entry) ==
    /\ TheFlux.domainWhitelist = {} \/ extract_domain(Key(entry)) \in TheFlux.domainWhitelist
    /\ TheFlux.domainBlacklist = {} \/ extract_domain(Key(entry)) \notin TheFlux.domainBlacklist

\* Every predicate but the exclude-regex one.
OthersOk(entry) ==
    /\ UsableLink(entry) /\ NotQuiet /\ NotSentBefore(entry)
    /\ LanguageOk(entry) /\ IncludeKeywordsOk(entry) /\ ExcludeKeywordsOk(entry)
    /\ IncludeRegexOk(entry) /\ DomainOk(entry)

\* The item of a one-entry feed was handed to the sink.
Handed == cycles # EmptyBag \/ (Ended /\ last.sent # <<>>)

\* C7: with maxPerRun = m >= 1, q qualifying items and a sink that
\* succeeds, the cycle delivers min(m, q) items: qualifying items, in
\* descending timestamp order, each at least as recent as the ones left out; and
\* the ones left out are neither delivered nor marked.  An item qualifies
\* when its link is usable, its key is not in the table, it is the first
\* item of its key in descending timestamp order, and the text and domain
\* filters accept it.
Qualifying ==
    {i \in 1..Len(TheFeed) :
        /\ UsableLink(TheFeed[i])
        /\ NotSentBefore(TheFeed[i])
        /\ \A j \in 1..Len(TheFeed) :
               (j # i /\ Key(TheFeed[j]) = Key(TheFeed[i])) =>
                   \/ Stamp(TheFeed[j]) < Stamp(TheFeed[i])
                   \/ (Stamp(TheFeed[j]) = Stamp(TheFeed[i]) /\ j > i)
        /\ passes_filters(TheFlux, TheFeed[i])}

\* The qualifying items whose keys the cycle delivered, in delivery order.
DeliveredAt(k) == CHOOSE i \in Qualifying : Key(TheFeed[i]) = last.sent[k]

C7_CapInDescendingOrder ==
    (Ended /\ TheFlux.maxPerRun >= 1) =>
        /\ Len(last.sent) = Min(TheFlux.maxPerRun, Cardinality(Qualifying))
        /\ \A k \in 1..Len(last.sent) :
               \E i \in Qualifying : Key(TheFeed[i]) = last.sent[k]
        /\ \A k, l \in 1..Len(last.sent) :
               k < l => /\ last.sent[k] # last.sent[l]
                        /\ Stamp(TheFeed[DeliveredAt(k)]) >= Stamp(TheFeed[DeliveredAt(l)])
        /\ \A i \in Qualifying :
               Key(TheFeed[i]) \notin Range(last.sent) =>
                   \A k \in 1..Len(last.sent) :
                       Stamp(TheFeed[i]) <= Stamp(TheFeed[DeliveredAt(k)])
        /\ posted = {<<key, 1>> : key \in Range(last.sent)}
        /\ last.rows0 \subseteq sent_items
        /\ {r.item_url : r \in sent_items} =
               {r.item_url : r \in last.rows0} \cup Range(last.sent)

\* C7 witness: maxPerRun = 2, three qualifying items that the feed does not
\* list in descending order, two delivered.
C7_Witness ==
    /\ Ended
    /\ TheFlux.maxPerRun = 2
    /\ Cardinality(Qualifying) = 3
    /\ Len(last.sent) = 2
    /\ Stamp(TheFeed[1]) < Stamp(TheFeed[3])

\* C8: an item is handed to the sink only if it passes every predicate of
\* the filter chain; failing any one of them rejects it, whatever the
\* other settings.
C8_FilterConjunction ==
    \A i \in 1..Len(TheFeed) :
        LET entry == TheFeed[i]
        IN  /\ ~UsableLink(entry) => ~Handed
            /\ ~NotQuiet => ~Handed
            /\ ~NotSentBefore(entry) => ~Handed
            /\ ~LanguageOk(entry) => ~Handed
            /\ ~IncludeKeywordsOk(entry) => ~Handed
            /\ ~ExcludeKeywordsOk(entry) => ~Handed
            /\ ~IncludeRegexOk(entry) => ~Handed
            /\ ~ExcludeRegexOk(entry) => ~Handed
            /\ ~DomainOk(entry) => ~Handed

\* C8 witness: the cycle has ended without a delivery for an item on a
\* deny-listed domain that passes every other predicate.
C8_Witness ==
    /\ Ended
    /\ last.sent = <<>>
    /\ TheFlux.domainBlacklist # {}
    /\ ~DomainOk(TheFeed[1])
    /\ UsableLink(TheFeed[1]) /\ NotQuiet /\ NotSentBefore(TheFeed[1])
    /\ LanguageOk(TheFeed[1]) /\ IncludeKeywordsOk(TheFeed[1])
    /\ ExcludeKeywordsOk(TheFeed[1]) /\ IncludeRegexOk(TheFeed[1])
    /\ ExcludeRegexOk(TheFeed[1])

\* C9: for valid start and end, the item is rejected for quiet hours
\* exactly when the time of the cycle lies in [start, end), wrapping past
\* midnight for start > end; a time equal to end is outside.
ValidClock(s) == s.kind = "hm" /\ s.h \in 0..23 /\ s.m \in 0..59

ClockSecs(s) == (s.h * 60 + s.m) * 60

InWindow(now, start, end) ==
    IF start < end THEN start <= now /\ now < end
    ELSE now >= start \/ now < end

C9_QuietHoursHalfOpen ==
    (/\ Ended
     /\ ValidClock(TheFlux.quietHoursStart)
     /\ ValidClock(TheFlux.quietHoursEnd)
     /\ TheFlux.quietHoursStart # TheFlux.quietHoursEnd) =>
        (last.sent = <<>>) = InWindow(last.now, ClockSecs(TheFlux.quietHoursStart),
                                      ClockSecs(TheFlux.quietHoursEnd))

\* C10: an invalid pattern in regexExclude fails open: an item that passes
\* every other predicate, and that no valid exclude pattern matches, is
\* dispatched.
C10_InvalidExcludeFailsOpen ==
    (/\ Ended
     /\ \E k \in 1..Len(TheFlux.regexExclude) : TheFlux.regexExclude[k].kind = "bad"
     /\ OthersOk(TheFeed[1])
     /\ \A k \in 1..Len(TheFlux.regexExclude) :
            TheFlux.regexExclude[k].kind = "bad"
                \/ ~re_search(TheFlux.regexExclude[k], full_text(TheFeed[1]))) =>
        last.sent = <<Key(TheFeed[1])>>

\* C11: with a non-empty regexInclude, an item that passes every other
\* predicate is accepted iff some pattern matches the text, whatever the
\* case, or the evaluation reaches an invalid pattern (which is so when
\* the list holds one and no valid pattern before it matches).
MatchesText(pattern, text) ==
    pattern.kind # "bad"
        /\ \E l \in 1..Len(text) : \E q \in 1..Len(text[l]) :
               lower(text[l][q]) = lower(pattern.word)

IncludeRegexAccepts(entry) ==
    \E k \in 1..Len(TheFlux.regexInclude) :
        \/ TheFlux.regexInclude[k].kind = "bad"
        \/ MatchesText(TheFlux.regexInclude[k], full_text(entry))

C11_IncludeRegexFailsOpen ==
    (/\ Ended
     /\ TheFlux.regexInclude # <<>>
     /\ UsableLink(TheFeed[1]) /\ NotQuiet /\ NotSentBefore(TheFeed[1])
     /\ LanguageOk(TheFeed[1]) /\ IncludeKeywordsOk(TheFeed[1])
     /\ ExcludeKeywordsOk(TheFeed[1]) /\ ExcludeRegexOk(TheFeed[1])
     /\ DomainOk(TheFeed[1])) =>
        (last.sent = <<Key(TheFeed[1])>>) = IncludeRegexAccepts(TheFeed[1])

\* C11 witness: the item was delivered although no valid pattern matches
\* it: a valid pattern that does not match is followed by an invalid one.
C11_Witness ==
    /\ Ended
    /\ Len(TheFlux.regexInclude) = 2
    /\ TheFlux.regexInclude[1].kind = "lit"
    /\ TheFlux.regexInclude[2].kind = "bad"
    /\ ~MatchesText(TheFlux.regexInclude[1], full_text(TheFeed[1]))
    /\ last.sent = <<Key(TheFeed[1])>>

\* C12: when the send of an item raises, the item is neither marked nor
\* counted and the cycle goes on: it ends only at the cap or after every
\* qualifying item of the sorted sequence was handed to the sink.
QualifyingKeys == {Key(TheFeed[i]) : i \in Qualifying}

C12_SinkFailureSkipsItem ==
    (Ended /\ cycles = EmptyBag /\ last.failed # <<>>) =>
        /\ Range(last.failed) \cap Range(last.sent) = {}
        /\ \A key \in Range(last.failed) : \A r \in sent_items : r.item_url # key
        /\ last.sent_count = Len(last.sent)
        /\ \/ Len(last.sent) = max_per_run(TheFlux)
           \/ QualifyingKeys = Range(last.sent) \cup Range(last.failed)

\* C12 witness: the send of the first item of the sorted sequence raised
\* and the next item was delivered in the same cycle.
C12_Witness ==
    /\ Ended
    /\ cycles = EmptyBag
    /\ last.failed = <<K1>>
    /\ last.sent = <<K2>>
    /\ \A r \in sent_items : r.item_url # K1

\* C13: when update_one raises after a delivery, the item stays marked
\* and counted, the cycle goes on with the remaining items and reports no
\* error, and the sink never gets the item again, in this cycle or a later
\* one (cycles that do not overlap, no sweep).
C13_UpdateFailureKeepsMark ==
    /\ \A u \in unsaved :
           /\ \E r \in sent_items : r.item_url = u[1]
           /\ PostCount(u[1]) = u[2]
    /\ (Ended /\ cycles = EmptyBag /\ \E u \in unsaved : u[1] \in Range(last.sent)) =>
           /\ last.sent_count = Len(last.sent)
           /\ last.error = None
           /\ \/ Len(last.sent) = max_per_run(TheFlux)
              \/ QualifyingKeys = Range(last.sent) \cup Range(last.failed)

\* C13 witness: the update raised for a key in one cycle, with one message
\* in the sink, and a later cycle that fetched the key again has ended.
C13_Witness ==
    /\ Ended
    /\ cycles = EmptyBag
    /\ <<K1, 1>> \in unsaved
    /\ \E r \in last.rows0 : r.item_url = K1
    /\ \E i \in 1..Len(last.entries) : Link(last.entries[i]) = K1

\* C14: in both modes, a key whose message was posted is recorded in
\* sent_items by the end of that cycle, and no later cycle posts it again;
\* also when the post succeeds and create_thread then fails.
C14_PostedIsRecorded ==
    cycles = EmptyBag =>
        \A p \in posted :
            /\ \E r \in sent_items : r.item_url = p[1]
            /\ p[2] = 1

\* C15: after the cycles fired by a feed's timer, with updates that
\* succeed, the stored totalSent is its value when the timer was installed
\* plus the number of deliveries of those cycles (one cycle here).
C15_TotalSentAccumulates ==
    Ended =>
        \A job \in jobs :
            fluxes[job.flux.src].totalSent = job.flux.totalSent + Len(last.sent)

\* C16: after a timer-fired cycle of a feed fails, the feed's stored
\* lastError holds the failure.
C16_LastErrorStored ==
    (Ended /\ last.error # None) =>
        \E oid \in DOMAIN fluxes :
            fluxes[oid].rssUrl = last.error /\ fluxes[oid].lastError # None

C18_AggressiveModeIntervals ==
    /\ []((phase = "up" /\ aggressive_mode) =>
            /\ \A job \in jobs : job.interval = AggressiveInterval
            /\ \A oid \in DOMAIN fluxes : fluxes[oid].active => TimersOf(oid) # {})
    /\ [][(aggressive_mode /\ ~aggressive_mode') =>
            \A oid \in DOMAIN fluxes' :
                fluxes'[oid].active =>
                    /\ \E job \in jobs' : job.flux.src = oid
                    /\ \A job \in jobs' :
                           job.flux.src = oid => job.interval = fluxes'[oid].interval]_vars

\* C19: while aggressive mode is off, every installed timer has an interval
\* of at least 60 seconds.
C19_IntervalAtLeast60 ==
    (phase = "up" /\ ~aggressive_mode) => \A job \in jobs : job.interval >= 60

\* C20: a call of mark_as_sent(f, k) raises nothing and leaves already_sent(k)
\* true; when k had a record the call changes nothing, and otherwise it
\* adds the record of k with feed f and the time of the call.  The table
\* holds one record for a key, a query answers true exactly for the keys
\* that were marked, and a record never changes after its insert.
C20_DedupStoreRoundTrip ==
    /\ [](\A r1, r2 \in sent_items : r1.item_url = r2.item_url => r1 = r2)
    /\ [](last.op = "already_sent" =>
            (last.result <=> \E r \in sent_items : r.item_url = last.item_url))
    /\ [][sent_items \subseteq sent_items']_vars
    /\ [][(last'.op = "mark_as_sent" /\ last' # last) =>
            LET k == last'.item_url
                row == [flux_id |-> last'.flux_id, item_url |-> k, sent_at |-> clock]
            IN  /\ last'.raised = None
                /\ already_sent(sent_items', k)
                /\ Cardinality({r \in sent_items' : r.item_url = k}) = 1
                /\ already_sent(sent_items, k) => sent_items' = sent_items
                /\ ~already_sent(sent_items, k) => sent_items' = sent_items \cup {row}]_vars

\* C20 witness: a second mark_as_sent of a key, later and by another feed,
\* has returned and the key's record is the one of the first insert.
C20_Witness ==
    /\ last.op = "mark_as_sent"
    /\ last.raised = None
    /\ \E r \in sent_items :
           /\ r.item_url = last.item_url
           /\ r.flux_id # last.flux_id
           /\ r.sent_at < last.at
    /\ Cardinality({r \in sent_items : r.item_url = last.item_url}) = 1

InactiveAtFire(flux) == flux.src \in DOMAIN fluxes /\ ~fluxes[flux.src].active

C22_InactiveFireIsNoOp ==
    [][\A c \in Running' :
           (c.job # CheckNowJob /\ \A d \in Running : d.job # c.job) =>
               ~InactiveAtFire(c.flux)]_vars

\* C23: a step that deactivates or deletes a feed while a cycle started by
\* one of its timers is in flight leaves the cycle as it is and removes
\* that timer from the job store, so that it starts no further cycle; and
\* every step leaves each running cycle in place, advances it, or ends it
\* with its result.
Unscheduled(oid) ==
    /\ oid \in DOMAIN fluxes
    /\ fluxes[oid].active
    /\ oid \in DOMAIN fluxes' => ~fluxes'[oid].active

C23_UnscheduleKeepsCycle ==
    [][/\ \A c \in Running :
              \/ c \in Running'
              \/ \E d \in Running' : d.job = c.job /\ d.entries = c.entries
              \/ last'.op = "cycle" /\ last'.entries = c.entries
       /\ \A c \in Running :
              (c.job # CheckNowJob /\ Unscheduled(c.flux.src)) =>
                  /\ cycles' = cycles
                  /\ \A job \in jobs' : job.id # c.job]_vars

\* C24: a cycle whose fetch failed (it got no item sequence) ends like a
\* cycle over an empty sequence: nothing delivered, zero items sent and no
\* error in its result.
C24_FetchFailureIsEmptyFeed ==
    (last.op = "cycle" /\ last.entries = <<>>) =>
        /\ last.sent = <<>>
        /\ last.sent_count = 0
        /\ last.error = None

\* C25: for every url of a recognised shape resolve returns the url of the
\* reference mapping: kind youtube maps /channel/<id> to the feed keyed by
\* channel_id=<id>, /@<h>, /user/<h> and /c/<h> to the feed keyed by
\* user=<h>, and otherwise a url with list=<p> to playlist_id=<p>; kinds
\* facebook, instagram and tiktok map to the bridging base without its
\* trailing slashes followed by /facebook/page/<seg>, /instagram/user/<seg>
\* and /tiktok/user/<seg>.  The shapes and the reference are read off the
\* parts the url was put together from.
FirstSegment(in) ==
    CASE in.path = "slash" -> in.name
      [] in.path = "at" -> <<"@">> \o in.name
      [] OTHER -> <<in.path>>

Recognised(in) ==
    /\ ~in.missing
    /\ CASE in.source_type = "youtube" ->
                \/ in.host = "youtube.com" /\ in.path \in {"channel", "at", "user", "c"}
                \/ in.tail.list
         [] in.source_type = "facebook" -> in.host = "facebook.com" /\ in.path # "none"
         [] in.source_type = "instagram" -> in.host = "instagram.com" /\ in.path # "none"
         [] in.source_type = "tiktok" -> in.host = "tiktok.com" /\ in.path = "at"
         [] OTHER -> FALSE

Reference(in) ==
    CASE in.source_type = "youtube" ->
             IF in.host = "youtube.com" /\ in.path = "channel"
             THEN <<"https://www.youtube.com/feeds/videos.xml?", "channel_id=">> \o in.name
             ELSE IF in.host = "youtube.com" /\ in.path \in {"at", "user", "c"}
             THEN <<"https://www.youtube.com/feeds/videos.xml?", "user=">> \o in.name
             ELSE <<"https://www.youtube.com/feeds/videos.xml?", "playlist_id=">> \o in.tail.p
      [] in.source_type = "facebook" ->
             in.base.core \o <<"/facebook/page/">> \o FirstSegment(in)
      [] in.source_type = "instagram" ->
             in.base.core \o <<"/instagram/user/">> \o FirstSegment(in)
      [] in.source_type = "tiktok" ->
             in.base.core \o <<"/tiktok/user/">> \o in.name

C25_ResolveMatchesReference ==
    (last.op = "resolve" /\ Recognised(last.in)) =>
        last.result = [raised |-> FALSE, value |-> Url(Reference(last.in))]

\* C25 witness: a youtube /channel/<id> url that also carries list=<p> was
\* resolved to the feed keyed by channel_id=<id>.
C25_Witness ==
    /\ last.op = "resolve"
    /\ last.in.source_type = "youtube"
    /\ last.in.host = "youtube.com"
    /\ last.in.path = "channel"
    /\ last.in.name = <<"UC-abc">>
    /\ last.in.tail.list
    /\ last.result.value.s =
           <<"https://www.youtube.com/feeds/videos.xml?", "channel_id=", "UC-abc">>

\* C26: resolve returns a value for every url and source type and never
\* raises; it returns the url it was given for a source type other than
\* youtube, facebook, instagram and tiktok, for a missing url (whose
\* parsing raises), and for a url that has none of the marks of its type.
SlashAfterHost(in) ==
    in.path # "none" \/ (in.tail.s # <<>> /\ Head(in.tail.s) = "/")

Unmatched(in) ==
    CASE in.source_type = "youtube" ->
             /\ ~(in.host = "youtube.com" /\ in.path \in {"channel", "at", "user", "c"})
             /\ ~in.tail.list
      [] in.source_type = "facebook" -> ~(in.host = "facebook.com" /\ SlashAfterHost(in))
      [] in.source_type = "instagram" -> ~(in.host = "instagram.com" /\ SlashAfterHost(in))
      [] in.source_type = "tiktok" -> ~(in.host = "tiktok.com" /\ in.path = "at")
      [] OTHER -> TRUE

C26_ResolveIsTotal ==
    last.op = "resolve" =>
        /\ ~last.result.raised
        /\ (last.in.missing \/ Unmatched(last.in)) => last.result.value = last.url

\* C26 witness: resolve was called with no url for a source type whose
\* parsing raises on it, and returned the missing url.
C26_Witness ==
    /\ last.op = "resolve"
    /\ last.in.missing
    /\ last.in.source_type = "instagram"
    /\ dispatch(last.url, "instagram", <<>>).raised
    /\ last.result = [raised |-> FALSE, value |-> NoUrl]

\* C27: a check-now request for a feed of the collection starts one cycle,
\* on that feed as the collection holds it, whose result carries its sent
\* count and error, and leaves the job store and the aggressive-mode flag
\* as they were; a request for an id the collection does not hold is
\* answered not-found and starts no cycle and changes nothing else.
CycleStarted ==
    \/ BagCardinality(cycles') = BagCardinality(cycles) + 1
    \/ cycles' = cycles /\ last' # last /\ last'.op = "cycle"

C27_CheckNowOneCycle ==
    /\ [][BagCardinality(cycles') <= BagCardinality(cycles) + 1]_vars
    /\ [][CycleStarted =>
            /\ jobs' = jobs
            /\ aggressive_mode' = aggressive_mode
            /\ \A c \in Running' :
                   (c \notin Running \/ cycles'[c] > cycles[c]) =>
                       /\ c.job = CheckNowJob
                       /\ c.flux.src \in DOMAIN fluxes
                       /\ c.flux = FluxInDB(fluxes[c.flux.src], Str(c.flux.src), c.flux.src)
                       /\ c.sent = <<>> /\ c.sent_count = 0]_vars
    /\ [][(last' # last /\ last'.op = "not_found") =>
            /\ ToOid(last'.flux_id) \notin DOMAIN fluxes
            /\ <<fluxes, jobs, aggressive_mode, cycles, sent_items, posted>>'
                   = <<fluxes, jobs, aggressive_mode, cycles, sent_items, posted>>]_vars
    /\ [](last.op = "cycle" => last.sent_count = Len(last.sent))

\* C27 witness: with a timer in the job store and aggressive mode on, two
\* cycles started by check-now requests are in flight.
C27_Witness ==
    /\ aggressive_mode
    /\ jobs # {}
    /\ BagCardinality(cycles) = 2
    /\ \A c \in Running : c.job = CheckNowJob
    /\ \A job \in jobs : job.id \in Uuids /\ job.interval = AggressiveInterval

\* C28: a bulk-actions request whose action is not activate, deactivate or
\* delete is answered 400 and leaves every document and the job store as
\* they were, whatever list of ids it carries; 400 is the answer of such
\* requests only.
C28_InvalidBulkActionRejected ==
    [][(last' # last /\ last'.op = "bulk") =>
          /\ last'.status = 400 <=> last'.action \notin {"activate", "deactivate", "delete"}
          /\ last'.status = 400 => (fluxes' = fluxes /\ jobs' = jobs)]_vars

\* C28 witness: a request with an unknown action and the ids of two stored
\* active feeds that have timers was answered 400.
C28_Witness ==
    /\ last.op = "bulk"
    /\ last.status = 400
    /\ Len(last.flux_ids) = 2
    /\ \A k \in 1..2 :
           /\ ToOid(last.flux_ids[k]) \in DOMAIN fluxes
           /\ fluxes[ToOid(last.flux_ids[k])].active
           /\ TimersOf(ToOid(last.flux_ids[k])) # {}

\* C29: a fire that arrives while a cycle of the same job is running is
\* dropped, not queued: while a cycle that was refused a fire goes on and
\* when it ends, no other cycle of its job starts, and a cycle of a job
\* starts only in a step of its own, from a timer in the job store, when no
\* cycle of that job is running.
C29_MissedFireDropped ==
    /\ [][\A c \in Running :
              (c.job # CheckNowJob /\ c.missed) =>
                  \A d \in Running' :
                      d.job = c.job =>
                          d.missed /\ d.entries = c.entries /\ d.rows0 = c.rows0]_vars
    /\ [][\A d \in Running' :
              (d.job # CheckNowJob /\ d \notin Running /\ ~d.missed
                   /\ d.sent = <<>> /\ d.failed = <<>>) =>
                  /\ \E job \in jobs : job.id = d.job
                  /\ \A c \in Running : c.job # d.job
                  /\ cycles' = cycles (+) SetToBag({d})
                  /\ sent_items' = sent_items /\ posted' = posted]_vars

\* C29 witness: a cycle that was refused a fire of its job has delivered an
\* item and is about to go on, alone for its job.
C29_Witness ==
    \E c \in Running :
        /\ c.missed
        /\ c.pc = "update"
        /\ c.sent # <<>>
        /\ instances(c.job) = 1
        /\ \E job \in jobs : job.id = c.job

\* C30: schedule_flux for a feed that has a timer leaves one timer of that
\* feed, whose flux is the one supplied (the document as the request left
\* it) and whose interval is that flux's effective interval; the timer it
\* replaced is gone, so every cycle a timer starts afterwards runs on the
\* flux of the one timer the job store holds for the feed.
C30_RescheduleReplacesTimer ==
    /\ [][\A new \in jobs' \ jobs :
              new.id \in RequestIds =>
                  /\ new.flux = FluxInDB(fluxes'[ToOid(new.id)], new.id, ToOid(new.id))
                  /\ new.interval = interval_seconds(new.flux, aggressive_mode')
                  /\ \A job \in jobs' : job.flux.src = new.flux.src => job = new]_vars
    /\ [][\A d \in Running' :
              (d.job # CheckNowJob /\ d \notin Running /\ \A c \in Running : c.job # d.job) =>
                  \A job \in jobs : job.flux.src = d.flux.src => job.flux = d.flux]_vars

\* C31: a call of unschedule_flux returns TRUE exactly when the job store
\* held a timer of that id; after it no timer of the id is left and the
\* timers of other ids are the ones there were; a second call right after
\* it, for the same id, returns FALSE and leaves the job store as it is.
C31_UnscheduleReturnsFound ==
    [][(last' # last /\ last'.op = "unschedule") =>
           /\ last'.result = (\E j \in jobs : j.id = last'.flux_id)
           /\ \A j \in jobs' : j.id # last'.flux_id
           /\ {j \in jobs' : j.id # last'.flux_id} = {j \in jobs : j.id # last'.flux_id}
           /\ (last.op = "unschedule" /\ last.flux_id = last'.flux_id /\ jobs = last.after) =>
                  (~last'.result /\ jobs' = jobs)]_vars

C31_Witness ==
    /\ last.op = "unschedule"
    /\ last.result
    /\ jobs # {}
    /\ \E d \in DOMAIN fluxes : Str(d) = last.flux_id
\* C32: every row of sent_items was written after the sink took the item
\* of that key: the step that writes a row is the return of a send for an
\* entry with a link, outside quiet hours, accepted by the filters and
\* under the cap, and that send did not raise; a send that raises writes
\* no row.
C32_RecordedWasDelivered ==
    /\ [](\A row \in sent_items : \E p \in posted : p[1] = row.item_url)
    /\ [][\A row \in sent_items' \ sent_items :
              \E c \in Running :
                  LET entry == c.entries[c.i]
                  IN  /\ c.pc = "send"
                      /\ row.item_url = Link(entry) /\ row.flux_id = c.flux.id
                      /\ Link(entry) # <<>>
                      /\ ~is_in_quiet_hours(c.now, c.flux.quietHoursStart,
                                            c.flux.quietHoursEnd)
                      /\ passes_filters(c.flux, entry)
                      /\ c.sent_count < max_per_run(c.flux)
                      /\ \E p \in posted' : p[1] = Link(entry)
                      /\ \E d \in Running' :
                             /\ d.pc = "update" /\ d.job = c.job
                             /\ d.sent = Append(c.sent, Link(entry))
                             /\ d.failed = c.failed]_vars

C32_Witness ==
    /\ sinkFailed
    /\ last.op = "cycle"
    /\ last.failed # <<>>
    /\ last.sent # <<>>
    /\ \A i \in 1..Len(last.failed) :
           \A row \in sent_items : row.item_url # last.failed[i]
    /\ \E row \in sent_items : row.item_url = last.sent[1]
\* C33: after a cycle that delivered at least one item, with updates the
\* collection accepted, the document of the feed holds the key of the last
\* item delivered as lastItem and that item's date as lastPubDate.
C33_LastItemStored ==
    (Ended /\ last.sent # <<>>) =>
        \E i \in 1..Len(last.entries) :
            /\ Link(last.entries[i]) = last.sent[Len(last.sent)]
            /\ TheFlux.lastItem = Link(last.entries[i])
            /\ TheFlux.lastPubDate = extract_item_date(last.entries[i])
\* C34: while the cycle of one feed is in its fetch, the timer of another
\* feed that is due can fire and start that feed's cycle.
C34_FetchDoesNotBlockTimers ==
    \A c \in Running :
        c.pc = "fetch" =>
            \A job \in jobs :
                (job.id # c.job /\ job.flux.active /\ MayRun(job)) => ENABLED LoopFire(job)
C36_DedupAcrossFeeds ==
    [][\A c \in Running :
           (c.pc = "send" /\ c \notin Running') =>
               \A row \in sent_items :
                   row.flux_id # c.flux.id => row.item_url # Link(c.entries[c.i])]_vars

C36_Witness ==
    /\ Ended
    /\ Len(last.entries) = 2
    /\ last.sent = <<K2>>
    /\ last.failed = <<>>
    /\ \E row \in sent_items :
           /\ row.item_url = K1
           /\ \/ row.flux_id = Str(Oid(1))
              \/ \E job \in jobs : job.id = row.flux_id /\ job.flux.src = Oid(1)
\* C37: an item that a cycle leaves undelivered because of quiet hours,
\* the cap or a send that raised is not marked, and a cycle outside quiet
\* hours whose sends all succeed delivers, up to the cap, every item that
\* qualifies against the table it starts with; the key of a send that
\* raised is not handed to the sink again in that cycle.
C37_UndeliveredStaysEligible ==
    (Ended /\ cycles = EmptyBag) =>
        LET quiet == is_in_quiet_hours(last.now, TheFlux.quietHoursStart,
                                       TheFlux.quietHoursEnd)
        IN  /\ {r.item_url : r \in sent_items}
                   = {r.item_url : r \in last.rows0} \cup Range(last.sent)
            /\ quiet => (last.sent = <<>> /\ last.failed = <<>>)
            /\ (~quiet /\ last.failed = <<>>) =>
                   /\ Len(last.sent) = Min(max_per_run(TheFlux), Cardinality(QualifyingKeys))
                   /\ Range(last.sent) \subseteq QualifyingKeys
            /\ Range(last.failed) \cap Range(last.sent) = {}
            /\ \A i, j \in 1..Len(last.failed) : i # j => last.failed[i] # last.failed[j]

C37_Witness ==
    /\ Ended
    /\ cycles = EmptyBag
    /\ sinkFailed
    /\ TheFlux.maxPerRun = 1
    /\ last.now = At(12, 0, 0)
    /\ last.failed = <<>>
    /\ last.sent = <<K2>>
    /\ PostCount(K1) = 1
    /\ PostCount(K2) = 1
\* C38: a send that raises is not counted: in a cycle the count is the
\* number of items delivered, it never exceeds the cap (maxPerRun, 5 for
\* 0), a send is started only below the cap, and a cycle ends below the
\* cap only after every qualifying key was handed to the sink; the number
\* of items handed to the sink can exceed the cap.
C38_FailuresNotCounted ==
    /\ \A c \in Running :
           /\ c.sent_count = Len(c.sent)
           /\ c.sent_count <= max_per_run(c.flux)
           /\ c.pc = "send" => c.sent_count < max_per_run(c.flux)
    /\ (Ended /\ cycles = EmptyBag) =>
           /\ last.sent_count = Len(last.sent)
           /\ Len(last.sent) <= max_per_run(TheFlux)
           /\ Len(last.sent) < max_per_run(TheFlux) =>
                  QualifyingKeys = Range(last.sent) \cup Range(last.failed)

C38_Witness ==
    /\ Ended
    /\ cycles = EmptyBag
    /\ Len(last.sent) = max_per_run(TheFlux)
    /\ Len(last.sent) + Len(last.failed) > max_per_run(TheFlux)

\* C39: when quietHoursStart equals quietHoursEnd (both valid HH:MM) every
\* time of day is inside quiet hours, so no cycle of the feed delivers or
\* marks anything; when start or end is missing or unparsable the
\* quiet-hours predicate rejects nothing, and the cycle delivers every
\* qualifying item.
C39_EqualBoundsAlwaysQuiet ==
    /\ (/\ ValidClock(TheFlux.quietHoursStart)
        /\ TheFlux.quietHoursEnd = TheFlux.quietHoursStart) =>
           /\ posted = {}
           /\ sent_items = {}
           /\ \A c \in Running : c.sent = <<>> /\ c.pc # "send"
           /\ Ended => last.sent = <<>> /\ last.failed = <<>>
    /\ (/\ Ended
        /\ \/ ~ValidClock(TheFlux.quietHoursStart)
           \/ ~ValidClock(TheFlux.quietHoursEnd)) =>
           /\ ~is_in_quiet_hours(last.now, TheFlux.quietHoursStart,
                                 TheFlux.quietHoursEnd)
           /\ Range(last.sent) = QualifyingKeys
           /\ \A key \in QualifyingKeys : \E r \in sent_items : r.item_url = key

C39_Witness ==
    /\ Ended
    /\ ValidClock(TheFlux.quietHoursStart)
    /\ TheFlux.quietHoursEnd = TheFlux.quietHoursStart
    /\ last.now # ClockSecs(TheFlux.quietHoursStart)
    /\ QualifyingKeys # {}
    /\ last.sent = <<>>

\* C40: the sweep of lifespan, cleanup_old_entries(days), deletes exactly
\* the rows of sent_items whose sent_at is more than `days` days before now,
\* answers their number and leaves every other row as it was; afterwards
\* already_sent is false for each purged key, and the next cycle delivers a
\* purged item that the feed still serves and that qualifies, and marks it
\* again.
C40_SweepPurgesOldRows ==
    /\ [][(phase = "boot" /\ phase' = "up") =>
            LET old == {r \in sent_items :
                           clock - r.sent_at > sent_items_retention_days * At(24, 0, 0)}
            IN  /\ sent_items' = sent_items \ old
                /\ cleanup_old_entries(sent_items, sent_items_retention_days,
                                       clock).deleted = Cardinality(old)
                /\ \A r \in old : ~already_sent(sent_items', r.item_url)]_vars
    /\ [](phase = "up" =>
              \A r \in sent_items :
                  r.sent_at < clock =>
                      /\ clock - r.sent_at <= sent_items_retention_days * At(24, 0, 0)
                      /\ PostCount(r.item_url) = 1)
    /\ []((Ended /\ cycles = EmptyBag) =>
              \A key \in QualifyingKeys :
                  \/ key \in Range(last.sent) /\ already_sent(sent_items, key)
                  \/ key \in Range(last.failed)
                  \/ Len(last.sent) = max_per_run(TheFlux))

C40_Witness ==
    /\ Ended /\ cycles = EmptyBag
    /\ \E key \in Range(last.sent) :
           /\ <<key, 2>> \in posted
           /\ \A r \in last.rows0 : r.item_url # key
           /\ \E r \in sent_items : r.item_url = key /\ r.sent_at = clock
    /\ \E r \in last.rows0 : r.sent_at = At(24, 0, 0)

====
